---- MODULE Spec2Model ----
(***************************************************************************)
(* State-machine model of the matching store, candidate selection,         *)
(* blackjack session manager and guided-flow validation steps of the bot.  *)
(* Tables of the SQLite store are modelled as bags of rows (tables with an  *)
(* AUTOINCREMENT id) or as functions keyed by the primary key.             *)
(***************************************************************************)
EXTENDS Integers, Sequences, FiniteSets, Bags, TLC

\* ------------------------------------------------------------------------
\* Bounds of the model
\* ------------------------------------------------------------------------
NumUsers == 3
MaxSwipeRows == 3
MaxMatchRows == 2
MaxTime == 1
NumShuffles == 12
MaxRounds == 2
NumPlayers == 1

Users == 1..NumUsers
None == 0

\* ------------------------------------------------------------------------
\* Row helpers
\* ------------------------------------------------------------------------
Min(a, b) == IF a < b THEN a ELSE b
Max(a, b) == IF a < b THEN b ELSE a

\* A table with an AUTOINCREMENT id whose id is never read is a bag of rows.
\* DELETE FROM t WHERE gone(row): the rows that stay
DeleteWhere(t, gone(_)) ==
    LET keep == {r \in DOMAIN t : ~gone(r)} IN [r \in keep |-> t[r]]

InsertRow(t, row) == t (+) SetToBag({row})

RowCount(t) == BagCardinality(t)

Genders == {"Male", "Female"}
Interests == {"Male", "Female", "Any"}
Cities == {"", "msk"}

VARIABLES
    tinder_profiles,        \* user_id -> profile row or NoProfile
    tinder_swipes,          \* rows [user_id, target_id, status, created_at]
    tinder_matches,         \* rows [user_a, user_b]
    tinder_current_target,  \* context.user_data["tinder_current_target"] per user
    now,                    \* CURRENT_TIMESTAMP (second resolution)
    ret                     \* what the last operation did and returned

VARIABLES
    user_wallets,           \* user_id -> balance
    blackjack_sessions,     \* the rows of the table blackjack_sessions
    bj_pending,             \* context.user_data["bj_pending"] per user
    games_played,           \* user_stats.games_played per user
    blackjack_boosts,       \* user_id -> boost, in percent
    bj_last                 \* per user: the last blackjack request and what it did

VARIABLES
    like_pc,                \* per in-flight like: the storage step it executes next
    like_event,             \* per in-flight like: <<user_id, target_id>>
    like_exists             \* per in-flight like: what its SELECT fetched

VARIABLES
    conv_state,             \* the cursor of each ConversationHandler for the flow user
    user_data,              \* context.user_data of the flow user: the draft fields
    tinder_media_rows,      \* tinder_media rows of the flow user, by position
    secret_santa,           \* the secret_santa row of the flow user
    users_row,              \* the users row of the flow user
    purchases,              \* the rows of the table purchases, by id
    user_contacts,          \* the user_contacts row of the flow user
    flows_entered,          \* how many conversations the flow user has entered
    flow_last               \* the last flow update: handler, input, reply, tables written

VARIABLES
    arg_hand,               \* the hand a card-engine function is applied to
    arg_deck,               \* the deck a card-engine function is applied to
    game_ret                \* what the card-engine function returned

VARIABLES
    votes,                  \* the rows of the table votes
    votes_cast,             \* per user: user_stats.votes_cast
    voter_gender,           \* per user: user_profiles.gender, "" while there is none
    vote_last               \* the last rating: voter, candidate, rating, what add_vote returned

VARIABLES
    bet_call,               \* per user: the handle_bet_selection call in progress
    sub_flow                \* history: where the user is with the contest's edit menu

datingVars == <<tinder_profiles, tinder_swipes, tinder_matches, tinder_current_target, now, ret>>
bjVars == <<user_wallets, blackjack_sessions, bj_pending, games_played, blackjack_boosts, bj_last>>
raceVars == <<like_pc, like_event, like_exists>>
flowVars == <<conv_state, user_data, tinder_media_rows, secret_santa, users_row, purchases,
              user_contacts, flows_entered, flow_last>>
gameVars == <<arg_hand, arg_deck, game_ret>>
voteVars == <<votes, votes_cast, voter_gender, vote_last>>
placeVars == <<bet_call, sub_flow>>
vars == <<datingVars, bjVars, raceVars, flowVars, gameVars, voteVars, placeVars>>

notDating == <<bjVars, raceVars, flowVars, gameVars, voteVars, placeVars>>
notBj == <<datingVars, raceVars, flowVars, gameVars, voteVars, placeVars>>

NoProfile == [exists |-> FALSE]

\* a tinder_profiles row (lat and lon left out); texts are sequences of characters
FullProfileRow(age, g, i, city, c, name, bio, a, t) ==
    [exists |-> TRUE, age |-> age, gender |-> g, interest |-> i, city |-> city,
     normalized_city |-> c, name |-> name, bio |-> bio, active |-> a, updated_at |-> t]

\* a row of an adult with no name and no bio, whose city text is its key
ProfileRow(g, i, c, a, t) ==
    FullProfileRow(18, g, i, IF c = "msk" THEN <<"m", "s", "k">> ELSE <<>>, c,
                   <<>>, <<>>, a, t)

\* ------------------------------------------------------------------------
\* db.py: swipes and matches
\* ------------------------------------------------------------------------
SwipeRow(user_id, target_id, status, t) ==
    [user_id |-> user_id, target_id |-> target_id, status |-> status, created_at |-> t]

MatchRow(a, b) == [user_a |-> a, user_b |-> b]

\* INSERT INTO tinder_swipes (user_id, target_id, status): no uniqueness constraint
mark_swipe(swipes, user_id, target_id, status, t) ==
    InsertRow(swipes, SwipeRow(user_id, target_id, status, t))

has_swiped(swipes, user_id, target_id) ==
    \E r \in DOMAIN swipes : r.user_id = user_id /\ r.target_id = target_id

\* SELECT 1 FROM tinder_swipes WHERE user_id = target_id AND target_id = user_id
\*   AND status = 'like'
reciprocal_like(swipes, user_id, target_id) ==
    \E r \in DOMAIN swipes :
        r.user_id = target_id /\ r.target_id = user_id /\ r.status = "like"

\* INSERT OR IGNORE INTO tinder_matches (user_a, user_b): the table declares no
\* PRIMARY KEY or UNIQUE constraint over (user_a, user_b), so nothing is ignored
insert_or_ignore_match(matches, a, b) == InsertRow(matches, MatchRow(a, b))

\* check_mutual_like testing for any reciprocal swipe instead of a reciprocal like
check_mutual_like_anyswipe(swipes, matches, user_id, target_id) ==
    IF has_swiped(swipes, target_id, user_id)
    THEN [matched |-> TRUE,
          matches |-> insert_or_ignore_match(matches, Min(user_id, target_id),
                                             Max(user_id, target_id))]
    ELSE [matched |-> FALSE, matches |-> matches]

\* check_mutual_like: [matched, matches']
check_mutual_like(swipes, matches, user_id, target_id) ==
    IF reciprocal_like(swipes, user_id, target_id)
    THEN [matched |-> TRUE,
          matches |-> insert_or_ignore_match(matches, Min(user_id, target_id),
                                             Max(user_id, target_id))]
    ELSE [matched |-> FALSE, matches |-> matches]

\* users_who_liked_me leaving out only the actors the user has liked back
users_who_liked_me_set_likedback(swipes, user_id) ==
    {r \in DOMAIN swipes :
        /\ r.target_id = user_id
        /\ r.status = "like"
        /\ ~reciprocal_like(swipes, r.user_id, user_id)}

\* users_who_liked_me: the possible first elements of the result list. The rows
\* are ordered by created_at DESC; rows of the same second come in any order.
users_who_liked_me_set(swipes, user_id) ==
    {r \in DOMAIN swipes :
        /\ r.target_id = user_id
        /\ r.status = "like"
        /\ ~has_swiped(swipes, user_id, r.user_id)}

first_liker(swipes, user_id) ==
    LET rows == users_who_liked_me_set(swipes, user_id) IN
    {r.user_id : r \in {x \in rows : \A y \in rows : y.created_at <= x.created_at}}

\* ------------------------------------------------------------------------
\* db.py: candidate selection
\* ------------------------------------------------------------------------
\* run_query: params = [user_id, user_id] (+ [normalized_city] when the city
\* clause is added) + [user_interest, user_interest, user_gender]
query_params(user_id, user_gender, user_interest, normalized_city, city_filter) ==
    <<user_id, user_id>>
      \o (IF city_filter /\ normalized_city # "" THEN <<normalized_city>> ELSE <<>>)
      \o <<user_interest, user_interest, user_gender>>

\* the WHERE clause without the NOT EXISTS (swipe) condition
query_where_seen(profiles, swipes, p, params) ==
    /\ profiles[p].exists
    /\ profiles[p].active
    /\ p # params[1]
    /\ (params[3] = "Any" \/ profiles[p].gender = params[4])
    /\ (profiles[p].interest = "Any" \/ profiles[p].interest = params[5])
    /\ (Len(params) = 6 => profiles[p].normalized_city = params[6])

\* the WHERE clause of run_query. sqlite3 binds the k-th "?" of the statement
\* text to params[k]; the city clause, when present, is the last "?" of the text.
query_where(profiles, swipes, p, params) ==
    /\ profiles[p].exists
    /\ profiles[p].active
    /\ p # params[1]
    /\ ~has_swiped(swipes, params[2], p)
    /\ (params[3] = "Any" \/ profiles[p].gender = params[4])
    /\ (profiles[p].interest = "Any" \/ profiles[p].interest = params[5])
    /\ (Len(params) = 6 => profiles[p].normalized_city = params[6])

\* run_query: ORDER BY updated_at DESC LIMIT 1 -- the rows fetchone() may return
run_query(profiles, swipes, user_id, user_gender, user_interest, normalized_city, city_filter) ==
    LET params == query_params(user_id, user_gender, user_interest,
                               normalized_city, city_filter)
        rows == {p \in DOMAIN profiles : query_where(profiles, swipes, p, params)}
    IN {p \in rows : \A q \in rows : profiles[q].updated_at <= profiles[p].updated_at}

\* get_next_candidate without the second run_query
get_next_candidate_nofallback(profiles, swipes, user_id, user_gender, user_interest, normalized_city) ==
    run_query(profiles, swipes, user_id, user_gender, user_interest, normalized_city, TRUE)

\* get_next_candidate: the rows it may return; {} stands for None
get_next_candidate(profiles, swipes, user_id, user_gender, user_interest, normalized_city) ==
    LET row == run_query(profiles, swipes, user_id, user_gender, user_interest,
                         normalized_city, TRUE)
    IN IF row # {} THEN row
       ELSE run_query(profiles, swipes, user_id, user_gender, user_interest,
                      normalized_city, FALSE)

\* ------------------------------------------------------------------------
\* db.py: resets and wipes
\* ------------------------------------------------------------------------
reset_swipes_for_user_swipes(swipes, user_id) ==
    DeleteWhere(swipes, LAMBDA r : r.user_id = user_id)

\* the match rows left in place by a reset
delete_matches_of_none(matches, user_id) == matches

delete_matches_of(matches, user_id) ==
    DeleteWhere(matches, LAMBDA r : r.user_a = user_id \/ r.user_b = user_id)

delete_full_profile_swipes(swipes, user_id) ==
    DeleteWhere(swipes, LAMBDA r : r.user_id = user_id \/ r.target_id = user_id)

\* ------------------------------------------------------------------------
\* Initial values of the blackjack state
\* ------------------------------------------------------------------------
NoSession == [exists |-> FALSE]

BjRec(op, accepted, amount, had_session, start, bet, result, pt, dt, forced) ==
    [op |-> op, accepted |-> accepted, amount |-> amount, had_session |-> had_session,
     start |-> start, bet |-> bet, result |-> result, pt |-> pt, dt |-> dt,
     forced |-> forced]

NoBjRec == BjRec("none", FALSE, 0, FALSE, 0, 0, "none", 0, 0, FALSE)

\* ensure_wallet: INSERT OR IGNORE INTO user_wallets (user_id, balance) VALUES (?, 20)
InitialBalance == 20

BjIdle ==
    /\ user_wallets = [u \in Users |-> InitialBalance]
    /\ blackjack_sessions = {}
    /\ bj_pending = [u \in Users |-> FALSE]
    /\ games_played = [u \in Users |-> 0]
    /\ blackjack_boosts = [u \in Users |-> 0]
    /\ bj_last = [u \in Users |-> NoBjRec]

\* no rating has been sent
NoVote == [op |-> "none"]

VoteIdle ==
    /\ votes = EmptyBag
    /\ votes_cast = [u \in Users |-> 0]
    /\ voter_gender = [u \in Users |-> ""]
    /\ vote_last = NoVote

\* no handle_bet_selection call is in progress
NoCall == [pc |-> "idle", bet |-> 0, deck |-> 0, start |-> 0]

PlaceIdle == bet_call = [u \in Users |-> NoCall] /\ sub_flow = "none"

\* no card-engine function has been applied
NoGameRet == [op |-> "none"]

GameIdle ==
    /\ arg_hand = <<>>
    /\ arg_deck = <<>>
    /\ game_ret = NoGameRet

\* ------------------------------------------------------------------------
\* Initial values of the in-flight likes and of the guided flows
\* ------------------------------------------------------------------------
Procs == {1, 2}

RaceIdle ==
    /\ like_pc = [i \in Procs |-> "done"]
    /\ like_event = [i \in Procs |-> <<None, None>>]
    /\ like_exists = [i \in Procs |-> FALSE]

\* ConversationHandler.END
END == "END"

\* context.user_data["shop_contact"]: absent, or the four details (<<>> is None)
NoShopContact ==
    [set |-> FALSE, full_name |-> <<>>, email |-> <<>>, address |-> <<>>, size |-> <<>>]

ShopContact(full_name, email, address, size) ==
    [set |-> TRUE, full_name |-> full_name, email |-> email, address |-> address,
     size |-> size]

\* context.user_data with no draft; 0, "" and <<>> stand for an absent key or None
EmptyUserData ==
    [tinder_age |-> 0, tinder_gender |-> "", tinder_interest |-> "",
     tinder_city |-> <<>>, tinder_normalized_city |-> "",
     tinder_name |-> <<>>, tinder_bio |-> <<>>, tinder_media |-> <<>>,
     tinder_edit_mode |-> FALSE,
     name |-> <<>>, first_name_only |-> <<>>, age |-> 0, gender |-> "",
     santa_active |-> FALSE, santa_name |-> <<>>, santa_existing_number |-> 0,
     shop_item |-> "", shop_recipient_id |-> 0, shop_recipient_username |-> <<>>,
     shop_skip_details |-> FALSE, shop_contact |-> NoShopContact, shop_purchase_id |-> 0,
     edit_for_submit |-> FALSE, contest_profile |-> NoProfile]

NoSanta == [exists |-> FALSE]

NoUser == [exists |-> FALSE]

\* get_contact returns None
NoContact == [exists |-> FALSE]

\* the user whose conversations, draft and own rows the flow variables hold
FlowUser == 1

NoFlowRec == [handler |-> "none", text |-> <<>>, reply |-> "", writes |-> {}]

FlowIdle ==
    /\ conv_state = [submit |-> END, santa |-> END, shop |-> END, tinder |-> END]
    /\ user_data = EmptyUserData
    /\ tinder_media_rows = <<>>
    /\ secret_santa = NoSanta
    /\ users_row = NoUser
    /\ purchases = <<>>
    /\ user_contacts = NoContact
    /\ flows_entered = 0
    /\ flow_last = NoFlowRec

\* ------------------------------------------------------------------------
\* handlers.py: swipe cards
\* ------------------------------------------------------------------------
\* send_next_candidate_card: the values tinder_current_target may have afterwards
send_next_candidate_card(profiles, swipes, cur, user_id) ==
    IF ~profiles[user_id].exists THEN {cur}
    ELSE LET row == get_next_candidate(profiles, swipes, user_id,
                        profiles[user_id].gender, profiles[user_id].interest,
                        profiles[user_id].normalized_city)
         IN IF row = {} THEN {cur} ELSE row

\* send_next_liker_card: the values tinder_current_target may have afterwards
send_next_liker_card(profiles, swipes, cur, user_id) ==
    LET likers == first_liker(swipes, user_id) IN
    IF likers = {} THEN {cur}
    ELSE {IF profiles[t].exists THEN t ELSE cur : t \in likers}

NoRet == [op |-> "none", user_id |-> None, target_id |-> None, matched |-> FALSE]

\* no profile, swipe or match is stored
DatingIdle ==
    /\ tinder_profiles = [u \in Users |-> NoProfile]
    /\ tinder_swipes = EmptyBag
    /\ tinder_matches = EmptyBag
    /\ tinder_current_target = [u \in Users |-> None]
    /\ now = 0
    /\ ret = NoRet

\* tinder_swipe_text, text "🔍"
Browse(u) ==
    /\ \E t \in send_next_candidate_card(tinder_profiles, tinder_swipes,
                                         tinder_current_target[u], u) :
          tinder_current_target' = [tinder_current_target EXCEPT ![u] = t]
    /\ ret' = NoRet
    /\ UNCHANGED <<tinder_profiles, tinder_swipes, tinder_matches, now, notDating>>

\* tinder_swipe_text, text "📥"; likes_command
LikesInbox(u) ==
    /\ \E t \in send_next_liker_card(tinder_profiles, tinder_swipes,
                                     tinder_current_target[u], u) :
          tinder_current_target' = [tinder_current_target EXCEPT ![u] = t]
    /\ ret' = NoRet
    /\ UNCHANGED <<tinder_profiles, tinder_swipes, tinder_matches, now, notDating>>

\* tinder_swipe_text, text "😴"
Snooze(u) ==
    /\ tinder_current_target[u] # None
    /\ tinder_current_target' = [tinder_current_target EXCEPT ![u] = None]
    /\ ret' = NoRet
    /\ UNCHANGED <<tinder_profiles, tinder_swipes, tinder_matches, now, notDating>>

\* tinder_swipe_text, text "❤️": mark_like_and_check, then the next card
Like(u) ==
    LET target_id == tinder_current_target[u]
        swipes1 == mark_swipe(tinder_swipes, u, target_id, "like", now)
        chk == check_mutual_like(swipes1, tinder_matches, u, target_id)
    IN /\ target_id # None
       /\ RowCount(tinder_swipes) < MaxSwipeRows
       /\ RowCount(tinder_matches) < MaxMatchRows
       /\ tinder_swipes' = swipes1
       /\ tinder_matches' = chk.matches
       /\ \E t \in send_next_candidate_card(tinder_profiles, swipes1, target_id, u) :
             tinder_current_target' = [tinder_current_target EXCEPT ![u] = t]
       /\ ret' = [op |-> "like", user_id |-> u, target_id |-> target_id,
                  matched |-> chk.matched]
       /\ UNCHANGED <<tinder_profiles, now, notDating>>

\* tinder_swipe_text, text "💔": mark_swipe(.., "dislike"), then the next card
Pass(u) ==
    LET target_id == tinder_current_target[u]
        swipes1 == mark_swipe(tinder_swipes, u, target_id, "dislike", now)
    IN /\ target_id # None
       /\ RowCount(tinder_swipes) < MaxSwipeRows
       /\ tinder_swipes' = swipes1
       /\ \E t \in send_next_candidate_card(tinder_profiles, swipes1, target_id, u) :
             tinder_current_target' = [tinder_current_target EXCEPT ![u] = t]
       /\ ret' = NoRet
       /\ UNCHANGED <<tinder_profiles, tinder_matches, now, notDating>>

\* ------------------------------------------------------------------------
\* handlers.py: admin resets
\* ------------------------------------------------------------------------
\* reset_shows_cmd <user> CONFIRM: db.reset_swipes_for_user
ResetShows(u) ==
    /\ tinder_swipes' = reset_swipes_for_user_swipes(tinder_swipes, u)
    /\ tinder_matches' = delete_matches_of(tinder_matches, u)
    /\ ret' = NoRet
    /\ UNCHANGED <<tinder_profiles, tinder_current_target, now, notDating>>

\* reset_shows_all_cmd CONFIRM: db.reset_swipes_all
ResetShowsAll ==
    /\ tinder_swipes' = EmptyBag
    /\ tinder_matches' = EmptyBag
    /\ ret' = NoRet
    /\ UNCHANGED <<tinder_profiles, tinder_current_target, now, notDating>>

\* DELETE FROM purchases WHERE user_id = ? OR recipient_id = ?
delete_purchases_of(rows, u) ==
    SelectSeq(rows, LAMBDA r : r.user_id # u /\ r.recipient_id # u)

\* wipe_profile_cmd <user> CONFIRM: db.delete_user_completely, which begins with
\* delete_full_profile. A deleted wallet row reads as the initial balance again
\* (ensure_wallet) and deleted statistics as 0. The command does nothing to the
\* context.user_data of the wiped user or to the conversations they are in
WipeProfile(u) ==
    /\ tinder_swipes' = delete_full_profile_swipes(tinder_swipes, u)
    /\ tinder_matches' = delete_matches_of(tinder_matches, u)
    /\ tinder_profiles' = [tinder_profiles EXCEPT ![u] = NoProfile]
    /\ user_wallets' = [user_wallets EXCEPT ![u] = InitialBalance]
    /\ games_played' = [games_played EXCEPT ![u] = 0]
    /\ blackjack_sessions' = {r \in blackjack_sessions : r.user_id # u}
    /\ tinder_media_rows' = IF u = FlowUser THEN <<>> ELSE tinder_media_rows
    /\ users_row' = IF u = FlowUser THEN NoUser ELSE users_row
    /\ user_contacts' = IF u = FlowUser THEN NoContact ELSE user_contacts
    /\ purchases' = delete_purchases_of(purchases, u)
    /\ votes' = DeleteWhere(votes, LAMBDA r : r.user_id = u)
    /\ votes_cast' = [votes_cast EXCEPT ![u] = 0]
    /\ voter_gender' = [voter_gender EXCEPT ![u] = ""]
    /\ ret' = NoRet
    /\ UNCHANGED <<tinder_current_target, now, bj_pending, blackjack_boosts, bj_last,
                   conv_state, user_data, secret_santa, flows_entered, flow_last,
                   vote_last, bet_call, sub_flow, raceVars, gameVars>>

\* wipe_profiles_cmd CONFIRM: db.wipe_tinder_profiles
WipeProfiles ==
    /\ tinder_swipes' = EmptyBag
    /\ tinder_matches' = EmptyBag
    /\ tinder_profiles' = [u \in Users |-> NoProfile]
    /\ ret' = NoRet
    /\ UNCHANGED <<tinder_current_target, now, notDating>>

InitMatch ==
    /\ tinder_profiles = [u \in Users |->
          ProfileRow(IF u % 2 = 1 THEN "Male" ELSE "Female", "Any", "msk", TRUE, 0)]
    /\ tinder_swipes = EmptyBag
    /\ tinder_matches = EmptyBag
    /\ tinder_current_target = [u \in Users |-> None]
    /\ now = 0
    /\ ret = NoRet
    /\ BjIdle
    /\ RaceIdle
    /\ FlowIdle
    /\ VoteIdle
    /\ PlaceIdle
    /\ GameIdle

NextMatch ==
    \/ \E u \in Users : Browse(u)
    \/ \E u \in Users : LikesInbox(u)
    \/ \E u \in Users : Snooze(u)
    \/ \E u \in Users : Like(u)
    \/ \E u \in Users : Pass(u)
    \/ \E u \in Users : ResetShows(u)
    \/ ResetShowsAll
    \/ \E u \in Users : WipeProfile(u)
    \/ WipeProfiles

SpecMatch == InitMatch /\ [][NextMatch]_vars

\* ------------------------------------------------------------------------
\* Two likes in flight: each storage statement of mark_like_and_check is a step
\* ------------------------------------------------------------------------
notRace == <<tinder_profiles, tinder_current_target, now, ret, bjVars, flowVars, gameVars,
             voteVars, placeVars>>

\* mark_swipe: INSERT INTO tinder_swipes, commit
MarkSwipeStep(i) ==
    /\ like_pc[i] = "mark_swipe"
    /\ tinder_swipes' = mark_swipe(tinder_swipes, like_event[i][1], like_event[i][2],
                                   "like", now)
    /\ like_pc' = [like_pc EXCEPT ![i] = "select"]
    /\ UNCHANGED <<tinder_matches, like_event, like_exists, notRace>>

\* check_mutual_like: SELECT 1 FROM tinder_swipes ..., fetchone
SelectStep(i) ==
    LET exists == reciprocal_like(tinder_swipes, like_event[i][1], like_event[i][2]) IN
    /\ like_pc[i] = "select"
    /\ like_exists' = [like_exists EXCEPT ![i] = exists]
    /\ like_pc' = [like_pc EXCEPT ![i] = IF exists THEN "insert_match" ELSE "done"]
    /\ UNCHANGED <<tinder_swipes, tinder_matches, like_event, notRace>>

\* check_mutual_like: INSERT OR IGNORE INTO tinder_matches, commit
InsertMatchStep(i) ==
    /\ like_pc[i] = "insert_match"
    /\ tinder_matches' = insert_or_ignore_match(tinder_matches,
                             Min(like_event[i][1], like_event[i][2]),
                             Max(like_event[i][1], like_event[i][2]))
    /\ like_pc' = [like_pc EXCEPT ![i] = "done"]
    /\ UNCHANGED <<tinder_swipes, like_event, like_exists, notRace>>

\* the swipes of a third user stored before the two likes
ThirdPartySwipes(a, b) ==
    {SetToBag(S) : S \in SUBSET UNION {{SwipeRow(c, a, "like", 0), SwipeRow(c, b, "dislike", 0)} :
                                        c \in Users \ {a, b}}}

InitRace ==
    /\ tinder_profiles = [u \in Users |->
          ProfileRow(IF u % 2 = 1 THEN "Male" ELSE "Female", "Any", "msk", TRUE, 0)]
    /\ \E a \in Users, b \in Users :
          /\ a # b
          /\ like_event = [i \in Procs |-> IF i = 1 THEN <<a, b>> ELSE <<b, a>>]
          /\ tinder_swipes \in ThirdPartySwipes(a, b)
    /\ tinder_matches = EmptyBag
    /\ tinder_current_target = [u \in Users |-> None]
    /\ now = 0
    /\ ret = NoRet
    /\ like_pc = [i \in Procs |-> "mark_swipe"]
    /\ like_exists = [i \in Procs |-> FALSE]
    /\ BjIdle
    /\ FlowIdle
    /\ VoteIdle
    /\ PlaceIdle
    /\ GameIdle

NextRace ==
    \/ \E i \in Procs : MarkSwipeStep(i)
    \/ \E i \in Procs : SelectStep(i)
    \/ \E i \in Procs : InsertMatchStep(i)

SpecRace == InitRace /\ [][NextRace]_vars

\* ------------------------------------------------------------------------
\* Candidate selection applied to profile tables drawn from bounded sets
\* ------------------------------------------------------------------------
ProfileRows ==
    {ProfileRow(g, i, c, a, t) :
        g \in Genders, i \in Interests, c \in Cities, a \in BOOLEAN, t \in 0..MaxTime}

\* the swipes already stored: user 1 has liked user 2, disliked user 3, both or neither
StoredSwipes ==
    {SetToBag(S) : S \in SUBSET {SwipeRow(1, 2, "like", 0), SwipeRow(1, 3, "dislike", 0)}}

\* button "tinder:browse": send_next_candidate_card; ret records what
\* get_next_candidate returned (None: no row, or no own profile)
BrowseButton(u) ==
    LET row == IF tinder_profiles[u].exists
               THEN get_next_candidate(tinder_profiles, tinder_swipes, u,
                        tinder_profiles[u].gender, tinder_profiles[u].interest,
                        tinder_profiles[u].normalized_city)
               ELSE {}
    IN /\ ret.op = "none"
       /\ \E t \in (IF row = {} THEN {None} ELSE row) :
            /\ tinder_current_target' =
                  [tinder_current_target EXCEPT ![u] = IF t = None THEN @ ELSE t]
            /\ ret' = [op |-> "next_candidate", user_id |-> u, target_id |-> t,
                       matched |-> FALSE]
       /\ UNCHANGED <<tinder_profiles, tinder_swipes, tinder_matches, now, notDating>>

InitCand ==
    /\ tinder_profiles \in [Users -> ProfileRows]
    /\ tinder_swipes \in StoredSwipes
    /\ tinder_matches = EmptyBag
    /\ tinder_current_target = [u \in Users |-> None]
    /\ now = MaxTime
    /\ ret = NoRet
    /\ BjIdle
    /\ RaceIdle
    /\ FlowIdle
    /\ VoteIdle
    /\ PlaceIdle
    /\ GameIdle

NextCand == \E u \in Users : BrowseButton(u)

SpecCand == InitCand /\ [][NextCand]_vars

\* ------------------------------------------------------------------------
\* game.py: card engine
\* ------------------------------------------------------------------------
Ranks == <<"A", "2", "3", "4", "5", "6", "7", "8", "9", "10", "J", "Q", "K">>
Suits == <<"H", "D", "C", "S">>

\* a card f"{r}{s}" is the pair <<r, s>>; card[:-1] is its first component
RankOf(card) == card[1]

\* int(rank) for the number cards
IntOf(rank) ==
    CASE rank = "2" -> 2 [] rank = "3" -> 3 [] rank = "4" -> 4 [] rank = "5" -> 5
      [] rank = "6" -> 6 [] rank = "7" -> 7 [] rank = "8" -> 8 [] rank = "9" -> 9
      [] rank = "10" -> 10

\* deck = [f"{r}{s}" for r in ranks for s in suits], before the shuffle
OrderedDeck ==
    [i \in 1..(Len(Ranks) * Len(Suits)) |->
        <<Ranks[((i - 1) \div Len(Suits)) + 1], Suits[((i - 1) % Len(Suits)) + 1]>>]

\* random.shuffle(deck) may leave any permutation.  The model draws the
\* permutation from a bounded family: the Fisher-Yates runs
\*     for i in reversed(range(1, len(x))): j = randbelow(i + 1); swap x[i], x[j]
\* whose randbelow stream is a linear congruential sequence started at a seed.
LcgNext(s) == (6101 * s + 15065) % 32768

Swap(x, i, j) == [x EXCEPT ![i] = x[j], ![j] = x[i]]

RECURSIVE FisherYates(_, _, _)
FisherYates(x, i, s) ==
    IF i < 2 THEN x
    ELSE LET s1 == LcgNext(s) IN FisherYates(Swap(x, i, (s1 % i) + 1), i - 1, s1)

\* build_deck: the decks it may return
Decks == [n \in 0..(NumShuffles - 1) |-> FisherYates(OrderedDeck, Len(OrderedDeck), n)]

build_deck(n) == Decks[n]

\* draw_card taking deck.pop(0), the card at the bottom
draw_card_bottom(deck) == [card |-> deck[1], deck |-> SubSeq(deck, 2, Len(deck))]

\* draw_card returning deck[-1] and leaving the card in the deck
draw_card_peek(deck) == [card |-> deck[Len(deck)], deck |-> deck]

\* draw_card: deck.pop() -- the last card; the deck that remains
draw_card(deck) == [card |-> deck[Len(deck)], deck |-> SubSeq(deck, 1, Len(deck) - 1)]

RECURSIVE SumHand(_)
\* the loop of hand_value: faces 10, aces 11, number cards int(rank)
SumHand(hand) ==
    IF hand = <<>> THEN [total |-> 0, aces |-> 0]
    ELSE LET r == SumHand(Tail(hand))
             rank == RankOf(Head(hand))
         IN IF rank \in {"J", "Q", "K"} THEN [r EXCEPT !.total = @ + 10]
            ELSE IF rank = "A" THEN [total |-> r.total + 11, aces |-> r.aces + 1]
            ELSE [r EXCEPT !.total = @ + IntOf(rank)]

RECURSIVE DemoteAces(_)
\* while total > 21 and aces: total -= 10; aces -= 1
DemoteAces(r) ==
    IF r.total > 21 /\ r.aces > 0
    THEN DemoteAces([total |-> r.total - 10, aces |-> r.aces - 1])
    ELSE r

\* hand_value with is_soft computed before the demotion loop
hand_value_anyace(hand) ==
    LET s == SumHand(hand)
        r == DemoteAces(s)
    IN [total |-> r.total, is_soft |-> s.aces > 0]

hand_value(hand) ==
    LET r == DemoteAces(SumHand(hand)) IN [total |-> r.total, is_soft |-> r.aces > 0]

is_blackjack(hand) == Len(hand) = 2 /\ hand_value(hand).total = 21

RECURSIVE dealer_play_stand17(_, _)
\* dealer_play standing on every 17
dealer_play_stand17(hand, deck) ==
    LET v == hand_value(hand) IN
    IF v.total < 17 /\ deck # <<>>
    THEN LET d == draw_card(deck) IN dealer_play_stand17(Append(hand, d.card), d.deck)
    ELSE [hand |-> hand, deck |-> deck]

RECURSIVE dealer_play(_, _)
\* dealer_play: draw while total < 17 or soft 17; [hand, deck] on return
dealer_play(hand, deck) ==
    LET v == hand_value(hand) IN
    IF (v.total < 17 \/ (v.total = 17 /\ v.is_soft)) /\ deck # <<>>
    THEN LET d == draw_card(deck) IN dealer_play(Append(hand, d.card), d.deck)
    ELSE [hand |-> hand, deck |-> deck]

\* ------------------------------------------------------------------------
\* hand_value applied to the hands of up to MaxHandLen cards
\* ------------------------------------------------------------------------
MaxHandLen == 4

RankSet == {Ranks[i] : i \in DOMAIN Ranks}

\* the k-th card of a given rank taken from a deck has the k-th suit
DealtCards(ranks) ==
    [i \in DOMAIN ranks |->
        <<ranks[i], Suits[Cardinality({j \in 1..i : ranks[j] = ranks[i]})]>>]

\* rank sequences a 52-card deck can deal: no rank more than once per suit
Dealable(ranks) ==
    \A i \in DOMAIN ranks : Cardinality({j \in 1..i : ranks[j] = ranks[i]}) <= Len(Suits)

Hands ==
    {DealtCards(r) : r \in {q \in UNION {[1..n -> RankSet] : n \in 2..MaxHandLen} : Dealable(q)}}

\* total, is_soft = game.hand_value(hand)
HandValue ==
    /\ game_ret.op = "none"
    /\ game_ret' = [op |-> "hand_value", total |-> hand_value(arg_hand).total,
                    is_soft |-> hand_value(arg_hand).is_soft]
    /\ UNCHANGED <<arg_hand, arg_deck, datingVars, bjVars, raceVars, flowVars,
                   voteVars, placeVars>>

\* the same cards held in another order
Reorder(i, j) ==
    /\ i < j
    /\ arg_hand' = Swap(arg_hand, i, j)
    /\ UNCHANGED <<arg_deck, game_ret, datingVars, bjVars, raceVars, flowVars,
                   voteVars, placeVars>>

InitHand ==
    /\ arg_hand \in Hands
    /\ arg_deck = <<>>
    /\ game_ret = NoGameRet
    /\ DatingIdle
    /\ BjIdle
    /\ RaceIdle
    /\ FlowIdle
    /\ VoteIdle
    /\ PlaceIdle

NextHand ==
    \/ HandValue
    \/ \E i \in DOMAIN arg_hand, j \in DOMAIN arg_hand : Reorder(i, j)

SpecHand == InitHand /\ [][NextHand]_vars

\* ------------------------------------------------------------------------
\* dealer_play applied to the dealer hands and decks a deal can leave
\* ------------------------------------------------------------------------
MaxTopCards == 2

Reverse(x) == [i \in DOMAIN x |-> x[Len(x) + 1 - i]]

\* a deck whose next cards are top[1], top[2], ... after the cards of dealt
\* (the dealer's two cards) and two more cards (the player's) have left it
DeckAfterDeal(dealt, top) ==
    LET gone == {dealt[i] : i \in DOMAIN dealt} \cup {top[i] : i \in DOMAIN top}
        others == SelectSeq(OrderedDeck, LAMBDA c : c \notin gone)
    IN SubSeq(others, 3, Len(others)) \o Reverse(top)

\* dealer_hand = game.dealer_play(session["dealer_hand"], deck)
DealerPlay ==
    /\ game_ret.op = "none"
    /\ LET dp == dealer_play(arg_hand, arg_deck) IN
       game_ret' = [op |-> "dealer_play", hand |-> dp.hand, deck |-> dp.deck]
    /\ UNCHANGED <<arg_hand, arg_deck, datingVars, bjVars, raceVars, flowVars,
                   voteVars, placeVars>>

InitDealer ==
    /\ \E r \in {q \in [1..(2 + MaxTopCards) -> RankSet] : Dealable(q)} :
          LET cards == DealtCards(r) IN
          /\ arg_hand = SubSeq(cards, 1, 2)
          /\ arg_deck = DeckAfterDeal(SubSeq(cards, 1, 2), SubSeq(cards, 3, Len(cards)))
    /\ game_ret = NoGameRet
    /\ DatingIdle
    /\ BjIdle
    /\ RaceIdle
    /\ FlowIdle
    /\ VoteIdle
    /\ PlaceIdle

NextDealer == DealerPlay

SpecDealer == InitDealer /\ [][NextDealer]_vars

\* ------------------------------------------------------------------------
\* handlers.py: blackjack session manager
\* ------------------------------------------------------------------------
Players == 1..NumPlayers

\* what the user may type at the bet prompt (digits only reach handle_bet_selection)
BetAmounts == {0, 10, 25}

\* /bjboost <user> <pct>: the percentages the admin sets
BoostPcts == {0, 50, 100}

\* the dict load_blackjack_session returns (status left out)
Session(deck, player_hand, dealer_hand, bet) ==
    [exists |-> TRUE, deck |-> deck, player_hand |-> player_hand,
     dealer_hand |-> dealer_hand, bet |-> bet]

\* a row of blackjack_sessions; user_id is its PRIMARY KEY
SessionRow(user_id, deck, player_hand, dealer_hand, bet) ==
    [user_id |-> user_id, deck |-> deck, player_hand |-> player_hand,
     dealer_hand |-> dealer_hand, bet |-> bet, status |-> "active"]

\* save_blackjack_session with a plain INSERT on a table without the key
save_blackjack_session_insert(sessions, user_id, deck, player_hand, dealer_hand, bet) ==
    sessions \cup {SessionRow(user_id, deck, player_hand, dealer_hand, bet)}

\* save_blackjack_session: INSERT ... ON CONFLICT(user_id) DO UPDATE SET ...
save_blackjack_session(sessions, user_id, deck, player_hand, dealer_hand, bet) ==
    {r \in sessions : r.user_id # user_id}
        \cup {SessionRow(user_id, deck, player_hand, dealer_hand, bet)}

\* load_blackjack_session: SELECT ... WHERE user_id = ?, fetchone()
load_blackjack_session(sessions, user_id) ==
    IF \E r \in sessions : r.user_id = user_id
    THEN LET row == CHOOSE r \in sessions : r.user_id = user_id
         IN Session(row.deck, row.player_hand, row.dealer_hand, row.bet)
    ELSE NoSession

\* clear_blackjack_session: DELETE FROM blackjack_sessions WHERE user_id = ?
clear_blackjack_session(sessions, user_id) == {r \in sessions : r.user_id # user_id}

\* handle_bet_selection without its balance test
bet_accepted_always(bet, balance) == TRUE

\* handle_bet_selection: "if bet > balance: ... return" is its only validation
bet_accepted(bet, balance) == ~(bet > balance)

\* handle_bet_selection paying the player's natural without looking at the dealer's
natural_payout_playerfirst(player_bj, dealer_bj, bet) ==
    IF player_bj THEN [payout |-> bet * 2, result |-> "win"]
    ELSE [payout |-> 0, result |-> "loss"]

\* handle_bet_selection: what a natural on the initial deal pays
natural_payout(player_bj, dealer_bj, bet) ==
    IF player_bj /\ dealer_bj THEN [payout |-> bet, result |-> "push"]
    ELSE IF player_bj THEN [payout |-> bet * 2, result |-> "win"]
    ELSE [payout |-> 0, result |-> "loss"]

\* resolve_blackjack_outcome forcing the bust whenever a boost is set
forced_dealer_bust_unconditional(boost, player_total, dealer_total) ==
    IF boost > 0 THEN {TRUE, FALSE} ELSE {FALSE}

\* resolve_blackjack_outcome: random.random() < boost, under its conditions
forced_dealer_bust(boost, player_total, dealer_total) ==
    IF boost > 0 /\ player_total <= 21 /\ dealer_total >= player_total /\ dealer_total <= 21
    THEN (IF boost >= 100 THEN {TRUE} ELSE {TRUE, FALSE})
    ELSE {FALSE}

\* resolve_blackjack_outcome with the push branch paying nothing
resolve_blackjack_outcome_nopush(player_total, dealer_total, forced, bet) ==
    IF player_total > 21 THEN [payout |-> 0, result |-> "bust"]
    ELSE IF forced \/ dealer_total > 21 THEN [payout |-> bet * 2, result |-> "win"]
    ELSE IF player_total > dealer_total THEN [payout |-> bet * 2, result |-> "win"]
    ELSE IF dealer_total > player_total THEN [payout |-> 0, result |-> "loss"]
    ELSE [payout |-> 0, result |-> "push"]

\* resolve_blackjack_outcome crediting a win of the player with the bet alone
resolve_blackjack_outcome_stakeonly(player_total, dealer_total, forced, bet) ==
    IF player_total > 21 THEN [payout |-> 0, result |-> "bust"]
    ELSE IF forced \/ dealer_total > 21 THEN [payout |-> bet * 2, result |-> "win"]
    ELSE IF player_total > dealer_total THEN [payout |-> bet, result |-> "win"]
    ELSE IF dealer_total > player_total THEN [payout |-> 0, result |-> "loss"]
    ELSE [payout |-> bet, result |-> "push"]

\* resolve_blackjack_outcome: the if/elif chain that pays
resolve_blackjack_outcome(player_total, dealer_total, forced, bet) ==
    IF player_total > 21 THEN [payout |-> 0, result |-> "bust"]
    ELSE IF forced \/ dealer_total > 21 THEN [payout |-> bet * 2, result |-> "win"]
    ELSE IF player_total > dealer_total THEN [payout |-> bet * 2, result |-> "win"]
    ELSE IF dealer_total > player_total THEN [payout |-> 0, result |-> "loss"]
    ELSE [payout |-> bet, result |-> "push"]

\* start_blackjack ("game:blackjack" button, /blackjack)
StartBlackjack(u) ==
    /\ IF user_wallets[u] < 1
       THEN UNCHANGED bj_pending
       ELSE bj_pending' = [bj_pending EXCEPT ![u] = TRUE]
    /\ bj_last' = [bj_last EXCEPT ![u] =
          [@ EXCEPT !.op = "prompt", !.accepted = user_wallets[u] >= 1]]
    /\ UNCHANGED <<user_wallets, blackjack_sessions, games_played, blackjack_boosts, notBj>>

\* handle_bet_selection(bet), with the deck build_deck returns
HandleBetSelection(u, bet, n) ==
    LET balance == user_wallets[u]
        had == load_blackjack_session(blackjack_sessions, u).exists
    IN IF ~bet_accepted(bet, balance)
       THEN /\ bj_last' = [bj_last EXCEPT ![u] =
                  [@ EXCEPT !.op = "bet", !.accepted = FALSE, !.amount = bet,
                            !.had_session = had]]
            /\ UNCHANGED <<user_wallets, blackjack_sessions, bj_pending, games_played>>
       ELSE LET d1 == draw_card(build_deck(n))
                d2 == draw_card(d1.deck)
                d3 == draw_card(d2.deck)
                d4 == draw_card(d3.deck)
                player_hand == <<d1.card, d2.card>>
                dealer_hand == <<d3.card, d4.card>>
                player_bj == is_blackjack(player_hand)
                dealer_bj == is_blackjack(dealer_hand)
                nat == natural_payout(player_bj, dealer_bj, bet)
                rec == BjRec("bet", TRUE, bet, had, balance, bet, "none",
                             hand_value(player_hand).total,
                             hand_value(dealer_hand).total, FALSE)
            IN /\ games_played[u] < MaxRounds
               /\ bj_pending' = [bj_pending EXCEPT ![u] = FALSE]
               /\ games_played' = [games_played EXCEPT ![u] = @ + 1]
               /\ IF player_bj \/ dealer_bj
                  THEN /\ user_wallets' = [user_wallets EXCEPT ![u] = balance - bet + nat.payout]
                       /\ blackjack_sessions' =
                              clear_blackjack_session(
                                  save_blackjack_session(blackjack_sessions, u, d4.deck,
                                                         player_hand, dealer_hand, bet), u)
                       /\ bj_last' = [bj_last EXCEPT ![u] = [rec EXCEPT !.result = nat.result]]
                  ELSE /\ user_wallets' = [user_wallets EXCEPT ![u] = balance - bet]
                       /\ blackjack_sessions' =
                              save_blackjack_session(blackjack_sessions, u, d4.deck,
                                                     player_hand, dealer_hand, bet)
                       /\ bj_last' = [bj_last EXCEPT ![u] = rec]

\* quick_reply_handler while bj_pending: a text of digits is the bet
QuickReplyBet(u) ==
    /\ bj_pending[u]
    /\ \E bet \in BetAmounts, n \in DOMAIN Decks : HandleBetSelection(u, bet, n)
    /\ UNCHANGED <<blackjack_boosts, notBj>>

\* quick_reply_handler while bj_pending: any other text is answered bet_invalid
QuickReplyInvalid(u) ==
    /\ bj_pending[u]
    /\ bj_last' = [bj_last EXCEPT ![u] = [@ EXCEPT !.op = "invalid", !.accepted = FALSE]]
    /\ UNCHANGED <<user_wallets, blackjack_sessions, bj_pending, games_played,
                   blackjack_boosts, notBj>>

\* button "bjbet:<n>": handle_bet_selection without the bj_pending test
BetButton(u) ==
    /\ \E bet \in BetAmounts, n \in DOMAIN Decks : HandleBetSelection(u, bet, n)
    /\ UNCHANGED <<blackjack_boosts, notBj>>

\* the reply no_active_game of hit, stand and double
NoActiveGame(u, op) ==
    /\ ~load_blackjack_session(blackjack_sessions, u).exists
    /\ bj_last' = [bj_last EXCEPT ![u] = [@ EXCEPT !.op = op, !.accepted = FALSE]]
    /\ UNCHANGED <<user_wallets, blackjack_sessions, bj_pending, games_played,
                   blackjack_boosts, notBj>>

\* blackjack_hit with the dealer drawing too while the round stays active
BlackjackHit_dealerplays(u) ==
    \/ NoActiveGame(u, "hit")
    \/ LET session == load_blackjack_session(blackjack_sessions, u)
           d == draw_card(session.deck)
           player_hand == Append(session.player_hand, d.card)
           total == hand_value(player_hand).total
           dp == dealer_play(session.dealer_hand, d.deck)
           rec == [bj_last[u] EXCEPT !.op = "hit", !.accepted = TRUE, !.pt = total]
       IN /\ session.exists
          /\ session.deck # <<>>
          /\ IF total > 21
             THEN /\ blackjack_sessions' = clear_blackjack_session(blackjack_sessions, u)
                  /\ bj_last' = [bj_last EXCEPT ![u] = [rec EXCEPT !.result = "bust"]]
             ELSE /\ blackjack_sessions' =
                         save_blackjack_session(blackjack_sessions, u, dp.deck, player_hand,
                                                dp.hand, session.bet)
                  /\ bj_last' = [bj_last EXCEPT ![u] = rec]
          /\ UNCHANGED <<user_wallets, bj_pending, games_played, blackjack_boosts, notBj>>

\* blackjack_hit
BlackjackHit(u) ==
    \/ NoActiveGame(u, "hit")
    \/ LET session == load_blackjack_session(blackjack_sessions, u)
           d == draw_card(session.deck)
           player_hand == Append(session.player_hand, d.card)
           total == hand_value(player_hand).total
           rec == [bj_last[u] EXCEPT !.op = "hit", !.accepted = TRUE, !.pt = total]
       IN /\ session.exists
          /\ session.deck # <<>>
          /\ IF total > 21
             THEN /\ blackjack_sessions' =
                         clear_blackjack_session(
                             save_blackjack_session(blackjack_sessions, u, d.deck, player_hand,
                                                    session.dealer_hand, session.bet), u)
                  /\ bj_last' = [bj_last EXCEPT ![u] = [rec EXCEPT !.result = "bust"]]
             ELSE /\ blackjack_sessions' =
                         save_blackjack_session(blackjack_sessions, u, d.deck, player_hand,
                                                session.dealer_hand, session.bet)
                  /\ bj_last' = [bj_last EXCEPT ![u] = rec]
          /\ UNCHANGED <<user_wallets, bj_pending, games_played, blackjack_boosts, notBj>>

\* blackjack_stand without clear_blackjack_session
BlackjackStand_keepsession(u) ==
    \/ NoActiveGame(u, "stand")
    \/ LET session == load_blackjack_session(blackjack_sessions, u)
           dp == dealer_play(session.dealer_hand, session.deck)
           pt == hand_value(session.player_hand).total
           dt == hand_value(dp.hand).total
       IN /\ session.exists
          /\ \E forced \in forced_dealer_bust(blackjack_boosts[u], pt, dt) :
               LET out == resolve_blackjack_outcome(pt, dt, forced, session.bet) IN
               /\ user_wallets' = [user_wallets EXCEPT ![u] = @ + out.payout]
               /\ bj_last' = [bj_last EXCEPT ![u] =
                     [@ EXCEPT !.op = "stand", !.accepted = TRUE, !.result = out.result,
                               !.pt = pt, !.dt = dt, !.forced = forced]]
          /\ UNCHANGED <<blackjack_sessions, bj_pending, games_played, blackjack_boosts, notBj>>

\* blackjack_stand: dealer_play, then resolve_blackjack_outcome
BlackjackStand(u) ==
    \/ NoActiveGame(u, "stand")
    \/ LET session == load_blackjack_session(blackjack_sessions, u)
           dp == dealer_play(session.dealer_hand, session.deck)
           pt == hand_value(session.player_hand).total
           dt == hand_value(dp.hand).total
       IN /\ session.exists
          /\ \E forced \in forced_dealer_bust(blackjack_boosts[u], pt, dt) :
               LET out == resolve_blackjack_outcome(pt, dt, forced, session.bet) IN
               /\ user_wallets' = [user_wallets EXCEPT ![u] = @ + out.payout]
               /\ bj_last' = [bj_last EXCEPT ![u] =
                     [@ EXCEPT !.op = "stand", !.accepted = TRUE, !.result = out.result,
                               !.pt = pt, !.dt = dt, !.forced = forced]]
          /\ blackjack_sessions' = clear_blackjack_session(blackjack_sessions, u)
          /\ UNCHANGED <<bj_pending, games_played, blackjack_boosts, notBj>>

\* blackjack_double without the test len(player_hand) != 2
BlackjackDouble_anytime(u) ==
    \/ NoActiveGame(u, "double")
    \/ LET session == load_blackjack_session(blackjack_sessions, u) IN
       /\ session.exists
       /\ user_wallets[u] < session.bet
       /\ bj_last' = [bj_last EXCEPT ![u] = [@ EXCEPT !.op = "double", !.accepted = FALSE]]
       /\ UNCHANGED <<user_wallets, blackjack_sessions, bj_pending, games_played,
                      blackjack_boosts, notBj>>
    \/ LET session == load_blackjack_session(blackjack_sessions, u)
           bet == session.bet * 2
           d == draw_card(session.deck)
           player_hand == Append(session.player_hand, d.card)
           pt == hand_value(player_hand).total
           dp == dealer_play(session.dealer_hand, d.deck)
           dt == hand_value(dp.hand).total
           rec == [bj_last[u] EXCEPT !.op = "double", !.accepted = TRUE, !.bet = bet,
                                     !.pt = pt]
       IN /\ session.exists
          /\ user_wallets[u] >= session.bet
          /\ IF pt > 21
             THEN /\ user_wallets' = [user_wallets EXCEPT ![u] = @ - session.bet]
                  /\ bj_last' = [bj_last EXCEPT ![u] = [rec EXCEPT !.result = "bust"]]
             ELSE \E forced \in forced_dealer_bust(blackjack_boosts[u], pt, dt) :
                    LET out == resolve_blackjack_outcome(pt, dt, forced, bet) IN
                    /\ user_wallets' = [user_wallets EXCEPT ![u] =
                                            @ - session.bet + out.payout]
                    /\ bj_last' = [bj_last EXCEPT ![u] =
                          [rec EXCEPT !.result = out.result, !.dt = dt, !.forced = forced]]
          /\ blackjack_sessions' = clear_blackjack_session(blackjack_sessions, u)
          /\ UNCHANGED <<bj_pending, games_played, blackjack_boosts, notBj>>

\* blackjack_double resolving on the bet as stored, not doubled
BlackjackDouble_singlebet(u) ==
    \/ NoActiveGame(u, "double")
    \/ LET session == load_blackjack_session(blackjack_sessions, u) IN
       /\ session.exists
       /\ (Len(session.player_hand) # 2 \/ user_wallets[u] < session.bet)
       /\ bj_last' = [bj_last EXCEPT ![u] = [@ EXCEPT !.op = "double", !.accepted = FALSE]]
       /\ UNCHANGED <<user_wallets, blackjack_sessions, bj_pending, games_played,
                      blackjack_boosts, notBj>>
    \/ LET session == load_blackjack_session(blackjack_sessions, u)
           bet == session.bet
           d == draw_card(session.deck)
           player_hand == Append(session.player_hand, d.card)
           pt == hand_value(player_hand).total
           dp == dealer_play(session.dealer_hand, d.deck)
           dt == hand_value(dp.hand).total
           rec == [bj_last[u] EXCEPT !.op = "double", !.accepted = TRUE, !.bet = bet,
                                     !.pt = pt]
       IN /\ session.exists
          /\ Len(session.player_hand) = 2
          /\ user_wallets[u] >= session.bet
          /\ IF pt > 21
             THEN /\ user_wallets' = [user_wallets EXCEPT ![u] = @ - session.bet]
                  /\ bj_last' = [bj_last EXCEPT ![u] = [rec EXCEPT !.result = "bust"]]
             ELSE \E forced \in forced_dealer_bust(blackjack_boosts[u], pt, dt) :
                    LET out == resolve_blackjack_outcome(pt, dt, forced, bet) IN
                    /\ user_wallets' = [user_wallets EXCEPT ![u] =
                                            @ - session.bet + out.payout]
                    /\ bj_last' = [bj_last EXCEPT ![u] =
                          [rec EXCEPT !.result = out.result, !.dt = dt, !.forced = forced]]
          /\ blackjack_sessions' = clear_blackjack_session(blackjack_sessions, u)
          /\ UNCHANGED <<bj_pending, games_played, blackjack_boosts, notBj>>

\* blackjack_double
BlackjackDouble(u) ==
    \/ NoActiveGame(u, "double")
    \/ LET session == load_blackjack_session(blackjack_sessions, u) IN
       /\ session.exists
       /\ (Len(session.player_hand) # 2 \/ user_wallets[u] < session.bet)
       /\ bj_last' = [bj_last EXCEPT ![u] = [@ EXCEPT !.op = "double", !.accepted = FALSE]]
       /\ UNCHANGED <<user_wallets, blackjack_sessions, bj_pending, games_played,
                      blackjack_boosts, notBj>>
    \/ LET session == load_blackjack_session(blackjack_sessions, u)
           bet == session.bet * 2
           d == draw_card(session.deck)
           player_hand == Append(session.player_hand, d.card)
           pt == hand_value(player_hand).total
           dp == dealer_play(session.dealer_hand, d.deck)
           dt == hand_value(dp.hand).total
           rec == [bj_last[u] EXCEPT !.op = "double", !.accepted = TRUE, !.bet = bet,
                                     !.pt = pt]
       IN /\ session.exists
          /\ Len(session.player_hand) = 2
          /\ user_wallets[u] >= session.bet
          /\ IF pt > 21
             THEN /\ user_wallets' = [user_wallets EXCEPT ![u] = @ - session.bet]
                  /\ bj_last' = [bj_last EXCEPT ![u] = [rec EXCEPT !.result = "bust"]]
             ELSE \E forced \in forced_dealer_bust(blackjack_boosts[u], pt, dt) :
                    LET out == resolve_blackjack_outcome(pt, dt, forced, bet) IN
                    /\ user_wallets' = [user_wallets EXCEPT ![u] =
                                            @ - session.bet + out.payout]
                    /\ bj_last' = [bj_last EXCEPT ![u] =
                          [rec EXCEPT !.result = out.result, !.dt = dt, !.forced = forced]]
          /\ blackjack_sessions' = clear_blackjack_session(blackjack_sessions, u)
          /\ UNCHANGED <<bj_pending, games_played, blackjack_boosts, notBj>>

\* blackjack_boost_cmd: db.set_blackjack_boost(target, pct / 100)
BlackjackBoostCmd(u) ==
    /\ \E pct \in BoostPcts :
          /\ pct # blackjack_boosts[u]
          /\ blackjack_boosts' = [blackjack_boosts EXCEPT ![u] = pct]
    /\ UNCHANGED <<user_wallets, blackjack_sessions, bj_pending, games_played, bj_last, notBj>>

\* ------------------------------------------------------------------------
\* Two players at the table, each with a round in progress or none
\* ------------------------------------------------------------------------
NumTablePlayers == 2
MaxStoredDeal == 1

TablePlayers == 1..NumTablePlayers

\* what handle_bet_selection(bet) stores when build_deck returns deck n
DealtRow(u, n, bet) ==
    LET d1 == draw_card(build_deck(n))
        d2 == draw_card(d1.deck)
        d3 == draw_card(d2.deck)
        d4 == draw_card(d3.deck)
    IN SessionRow(u, d4.deck, <<d1.card, d2.card>>, <<d3.card, d4.card>>, bet)

\* the deals of the first decks that leave a round in progress
StoredDeals ==
    {n \in 0..MaxStoredDeal :
        /\ ~is_blackjack(DealtRow(1, n, 0).player_hand)
        /\ ~is_blackjack(DealtRow(1, n, 0).dealer_hand)}

\* some players have a bet of 10 at stake; player 1 has one round left to
\* play, the others none
InitTable ==
    /\ \E deal \in [TablePlayers -> StoredDeals \cup {-1}] :
          /\ blackjack_sessions = {DealtRow(u, deal[u], 10) : u \in {v \in TablePlayers : deal[v] # -1}}
          /\ user_wallets = [u \in Users |->
                IF u \in TablePlayers /\ deal[u] # -1 THEN InitialBalance - 10
                ELSE InitialBalance]
          /\ bj_last = [u \in Users |->
                IF u \in TablePlayers /\ deal[u] # -1
                THEN LET row == DealtRow(u, deal[u], 10)
                     IN BjRec("bet", TRUE, 10, FALSE, InitialBalance, 10, "none",
                              hand_value(row.player_hand).total,
                              hand_value(row.dealer_hand).total, FALSE)
                ELSE NoBjRec]
    /\ bj_pending = [u \in Users |-> FALSE]
    /\ games_played = [u \in Users |-> IF u = 1 THEN MaxRounds - 1 ELSE MaxRounds]
    /\ blackjack_boosts = [u \in Users |-> 0]
    /\ DatingIdle
    /\ RaceIdle
    /\ FlowIdle
    /\ VoteIdle
    /\ PlaceIdle
    /\ GameIdle

NextTable ==
    \/ \E u \in TablePlayers : StartBlackjack(u)
    \/ \E u \in TablePlayers : QuickReplyBet(u)
    \/ \E u \in TablePlayers : BlackjackHit(u)
    \/ \E u \in TablePlayers : BlackjackStand(u)
    \/ \E u \in TablePlayers : BlackjackDouble(u)

SpecTable == InitTable /\ [][NextTable]_vars

InitBJ ==
    BjIdle /\ DatingIdle /\ RaceIdle /\ FlowIdle /\ GameIdle /\ VoteIdle /\ PlaceIdle

NextBJ ==
    \/ \E u \in Players : StartBlackjack(u)
    \/ \E u \in Players : QuickReplyBet(u)
    \/ \E u \in Players : QuickReplyInvalid(u)
    \/ \E u \in Players : BetButton(u)
    \/ \E u \in Players : BlackjackHit(u)
    \/ \E u \in Players : BlackjackStand(u)
    \/ \E u \in Players : BlackjackDouble(u)
    \/ \E u \in Players : BlackjackBoostCmd(u)

SpecBJ == InitBJ /\ [][NextBJ]_vars

\* ------------------------------------------------------------------------
\* Message texts: a str is the sequence of its characters
\* ------------------------------------------------------------------------
DigitChars == <<"0", "1", "2", "3", "4", "5", "6", "7", "8", "9">>
UpperChars == <<"A", "B", "C", "D", "E", "F", "G", "H", "I", "J", "K", "L", "M",
                "N", "O", "P", "Q", "R", "S", "T", "U", "V", "W", "X", "Y", "Z">>
LowerChars == <<"a", "b", "c", "d", "e", "f", "g", "h", "i", "j", "k", "l", "m",
                "n", "o", "p", "q", "r", "s", "t", "u", "v", "w", "x", "y", "z">>

\* str.isdigit
isdigit(s) ==
    /\ Len(s) > 0
    /\ \A k \in 1..Len(s) : \E d \in 1..Len(DigitChars) : DigitChars[d] = s[k]

DigitValue(c) == (CHOOSE d \in 1..Len(DigitChars) : DigitChars[d] = c) - 1

\* int(s) for a string of digits
RECURSIVE int(_)
int(s) ==
    IF Len(s) = 0 THEN 0
    ELSE 10 * int(SubSeq(s, 1, Len(s) - 1)) + DigitValue(s[Len(s)])

\* str.strip
RECURSIVE strip(_)
strip(s) ==
    IF Len(s) = 0 THEN s
    ELSE IF s[1] = " " THEN strip(Tail(s))
    ELSE IF s[Len(s)] = " " THEN strip(SubSeq(s, 1, Len(s) - 1))
    ELSE s

\* str.lower
lower(s) ==
    [k \in 1..Len(s) |->
        IF \E n \in 1..Len(UpperChars) : UpperChars[n] = s[k]
        THEN LowerChars[CHOOSE n \in 1..Len(UpperChars) : UpperChars[n] = s[k]]
        ELSE s[k]]

\* sub in s
contains(sub, s) ==
    \E k \in 0..(Len(s) - Len(sub)) : SubSeq(s, k + 1, k + Len(sub)) = sub

\* str.split(): the words between runs of spaces
RECURSIVE split(_)
split(s) ==
    LET txt == strip(s) IN
    IF Len(txt) = 0 THEN <<>>
    ELSE IF \E k \in 1..Len(txt) : txt[k] = " "
         THEN LET k == CHOOSE j \in 1..Len(txt) :
                          txt[j] = " " /\ \A h \in 1..(j - 1) : txt[h] # " "
              IN <<SubSeq(txt, 1, k - 1)>> \o split(SubSeq(txt, k + 1, Len(txt)))
         ELSE <<txt>>

\* " ".join(parts)
RECURSIVE join(_)
join(parts) ==
    IF Len(parts) = 0 THEN <<>>
    ELSE IF Len(parts) = 1 THEN parts[1]
    ELSE parts[1] \o <<" ">> \o join(Tail(parts))

\* helpers.split_name: (first, last); parts[0] of an empty list raises IndexError
split_name(full_name) ==
    LET parts == split(full_name) IN
    IF Len(parts) >= 2 THEN [raised |-> FALSE, first |-> parts[1], last |-> join(Tail(parts))]
    ELSE IF Len(parts) = 1 THEN [raised |-> FALSE, first |-> parts[1], last |-> <<>>]
    ELSE [raised |-> TRUE, first |-> <<>>, last |-> <<>>]

\* parse_username: the username, <<>> for None or ""
parse_username(text) ==
    LET txt == strip(text) IN
    IF Len(txt) > 0 /\ txt[1] = "@" THEN Tail(txt)
    ELSE IF contains(<<" ">>, txt) THEN <<>>
    ELSE txt

\* str.isalnum of one character
isalnum(c) ==
    \/ \E n \in 1..Len(DigitChars) : DigitChars[n] = c
    \/ \E n \in 1..Len(UpperChars) : UpperChars[n] = c
    \/ \E n \in 1..Len(LowerChars) : LowerChars[n] = c

\* helpers.normalize_city: strip, lower, every run of other characters becomes
\* one space, no space at either end (no text here has a Cyrillic letter)
normalize_city(text) ==
    IF Len(text) = 0 THEN <<>>
    ELSE LET txt == lower(strip(text))
             out == [k \in 1..Len(txt) |-> IF isalnum(txt[k]) THEN txt[k] ELSE " "]
         IN join(split(out))

\* the stored key of a normalized city text, as the string the queries compare
KeyOf(chars) ==
    CASE chars = <<>> -> ""
      [] chars = <<"m", "s", "k">> -> "msk"
      [] chars = <<"s", "p", "b">> -> "spb"

\* the texts sent to the flows
T_abc == <<"a", "b", "c">>
T_17 == <<"1", "7">>
T_18 == <<" ", "1", "8">>
T_121 == <<"1", "2", "1">>
T_4 == <<"4">>
T_Male == <<"M", "a", "l", "e">>
T_girl == <<"g", "i", "r", "l">>
T_F == <<"F">>
T_Ann == <<"A", "n", "n">>
T_AnnLee == <<"A", "n", "n", " ", "L", "e", "e">>
T_space == <<" ">>
T_atbob == <<"@", "b", "o", "b">>
T_at == <<"@">>
T_done == <<"d", "o", "n", "e">>
T_Msk == <<" ", "M", "s", "k">>
T_Spb == <<"S", "p", "b", "!">>
T_bang == <<"!", "!">>
T_M == <<"M">>
T_Bob == <<"B", "o", "b">>
T_me == <<"m", "e">>

\* ------------------------------------------------------------------------
\* handlers.py: the steps of the guided flows. A step returns the next cursor,
\* the draft, the key of the reply and whether save_profile_from_context ran.
\* The Cyrillic alternatives of the keyword tests are left out: no text sent
\* here has a Cyrillic letter.
\* ------------------------------------------------------------------------
Out(next, ud, reply, save) == [next |-> next, user_data |-> ud, reply |-> reply, save |-> save]

\* the tail shared by the profile steps in edit mode: save, leave edit mode, and
\* tinder_edit_menu, which ends the conversation once the profile row exists
edit_mode_save(ud) ==
    Out(END, [ud EXCEPT !.tinder_edit_mode = FALSE], "tinder_saved", TRUE)

\* tinder_age storing the number before the range test
tinder_age_eager(ud, text) ==
    LET txt == strip(text) IN
    IF ~isdigit(txt) THEN Out("TINDER_AGE", ud, "age_not_number", FALSE)
    ELSE IF int(txt) < 18 \/ int(txt) > 120
         THEN Out("TINDER_AGE", [ud EXCEPT !.tinder_age = int(txt)], "age_invalid", FALSE)
    ELSE Out("TINDER_GENDER", [ud EXCEPT !.tinder_age = int(txt)],
             "tinder_gender_prompt", FALSE)

tinder_age(ud, text) ==
    LET txt == strip(text) IN
    IF ~isdigit(txt) THEN Out("TINDER_AGE", ud, "age_not_number", FALSE)
    ELSE IF int(txt) < 18 \/ int(txt) > 120 THEN Out("TINDER_AGE", ud, "age_invalid", FALSE)
    ELSE Out("TINDER_GENDER", [ud EXCEPT !.tinder_age = int(txt)],
             "tinder_gender_prompt", FALSE)

tinder_gender_text(ud, text) ==
    LET txt == lower(text)
        male == contains(lower(T_Male), txt) \/ contains(<<"m", "a", "n">>, txt)
        female == contains(<<"f">>, txt) \/ contains(T_girl, txt)
        gender_value == IF male THEN "Male" ELSE "Female"
        ud1 == [ud EXCEPT !.tinder_gender = gender_value]
    IN IF ~male /\ ~female THEN Out("TINDER_GENDER", ud, "gender_invalid_choice", FALSE)
       ELSE IF ud.tinder_edit_mode THEN edit_mode_save(ud1)
       ELSE Out("TINDER_INTEREST", ud1, "tinder_interest_prompt", FALSE)

tinder_interest_text(ud, text) ==
    LET txt == lower(text)
        interest_value ==
            IF contains(<<"m", "a", "n">>, txt) THEN "Male"
            ELSE IF contains(T_girl, txt) \/ contains(<<"w", "o", "m", "e", "n">>, txt)
                    \/ contains(<<"f", "e", "m", "a", "l", "e">>, txt) THEN "Female"
            ELSE "Any"
        ud1 == [ud EXCEPT !.tinder_interest = interest_value]
    IN IF ud.tinder_edit_mode THEN edit_mode_save(ud1)
       ELSE Out("TINDER_CITY", ud1, "tinder_city_prompt", FALSE)

\* tinder_city on a text message that is not the last-city button
tinder_city(ud, text) ==
    LET ud1 == [ud EXCEPT !.tinder_city = strip(text),
                          !.tinder_normalized_city = KeyOf(normalize_city(strip(text)))]
    IN IF ud.tinder_edit_mode THEN edit_mode_save(ud1)
       ELSE Out("TINDER_NAME", ud1, "tinder_name_prompt", FALSE)

tinder_name(ud, text) ==
    LET ud1 == [ud EXCEPT !.tinder_name = strip(text)] IN
    IF ud.tinder_edit_mode THEN edit_mode_save(ud1)
    ELSE Out("TINDER_BIO", ud1, "tinder_bio_prompt", FALSE)

tinder_bio(ud, text) ==
    LET ud1 == [ud EXCEPT !.tinder_bio = strip(text)] IN
    IF ud.tinder_edit_mode THEN edit_mode_save(ud1)
    ELSE Out("TINDER_MEDIA", ud1, "tinder_media_prompt", FALSE)

\* _store_media: at most three
store_media(media, kind) ==
    IF Len(media) >= 3 THEN [ok |-> FALSE, media |-> media]
    ELSE [ok |-> TRUE, media |-> Append(media, kind)]

\* tinder_media: the update has a photo or a video (the filter of the state)
tinder_media(ud, kind) ==
    LET st == store_media(ud.tinder_media, kind)
        ud1 == [ud EXCEPT !.tinder_media = st.media]
    IN IF ~st.ok THEN Out("TINDER_CONFIRM", ud1, "limit_reached", FALSE)
       ELSE IF Len(ud1.tinder_media) >= 3 THEN Out("TINDER_CONFIRM", ud1, "tinder_profile_line", FALSE)
       ELSE Out("TINDER_MEDIA", ud1, "tinder_media_more", FALSE)

\* tinder_media_text; the localised Done label is not among the texts
tinder_media_text(ud, text) ==
    LET txt == lower(strip(text)) IN
    IF txt = T_done
    THEN IF Len(ud.tinder_media) = 0 THEN Out("TINDER_MEDIA", ud, "tinder_media_prompt", FALSE)
         ELSE Out("TINDER_CONFIRM", ud, "tinder_profile_line", FALSE)
    ELSE Out("TINDER_MEDIA", ud, "tinder_media_more", FALSE)

\* save_profile_from_context: the row upsert_profile stores; a draft field
\* that is falsy falls back to the stored row
profile_from_context(ud, profile, t) ==
    LET city == IF Len(ud.tinder_city) > 0 THEN ud.tinder_city
                ELSE IF profile.exists THEN profile.city ELSE <<>>
    IN FullProfileRow(
        IF ud.tinder_age # 0 THEN ud.tinder_age ELSE IF profile.exists THEN profile.age ELSE 0,
        IF ud.tinder_gender # "" THEN ud.tinder_gender
        ELSE IF profile.exists THEN profile.gender ELSE "",
        IF ud.tinder_interest # "" THEN ud.tinder_interest
        ELSE IF profile.exists THEN profile.interest ELSE "",
        city,
        IF ud.tinder_normalized_city # "" THEN ud.tinder_normalized_city
        ELSE IF profile.exists /\ profile.normalized_city # "" THEN profile.normalized_city
        ELSE KeyOf(normalize_city(city)),
        IF Len(ud.tinder_name) > 0 THEN ud.tinder_name
        ELSE IF profile.exists THEN profile.name ELSE <<>>,
        IF Len(ud.tinder_bio) > 0 THEN ud.tinder_bio
        ELSE IF profile.exists THEN profile.bio ELSE <<>>,
        TRUE, t)

\* tinder_save_cb: the row upsert_profile stores; with no stored row the name
\* falls back to the sender's Telegram name
tinder_save_profile(ud, profile, t) ==
    LET city == IF Len(ud.tinder_city) > 0 THEN ud.tinder_city
                ELSE IF profile.exists THEN profile.city ELSE <<>>
    IN FullProfileRow(
        IF ud.tinder_age # 0 THEN ud.tinder_age ELSE IF profile.exists THEN profile.age ELSE 0,
        IF ud.tinder_gender # "" THEN ud.tinder_gender
        ELSE IF profile.exists THEN profile.gender ELSE "",
        IF ud.tinder_interest # "" THEN ud.tinder_interest
        ELSE IF profile.exists THEN profile.interest ELSE "",
        city,
        IF ud.tinder_normalized_city # "" THEN ud.tinder_normalized_city
        ELSE IF profile.exists THEN profile.normalized_city
        ELSE KeyOf(normalize_city(city)),
        IF Len(ud.tinder_name) > 0 THEN ud.tinder_name
        ELSE IF profile.exists THEN profile.name ELSE T_Bob,
        IF Len(ud.tinder_bio) > 0 THEN ud.tinder_bio
        ELSE IF profile.exists THEN profile.bio ELSE <<>>,
        TRUE, t)

\* the row the edit steps read: the contest draft while edit_for_submit is set
\* and a draft is kept, else the stored row
profile_source(ud, profile) ==
    IF ud.edit_for_submit /\ ud.contest_profile.exists THEN ud.contest_profile ELSE profile

\* load_profile_into_context
load_profile_into_context(ud, stored) ==
    LET profile == profile_source(ud, stored) IN
    IF ~profile.exists THEN ud
    ELSE [ud EXCEPT !.tinder_age = profile.age, !.tinder_gender = profile.gender,
                    !.tinder_interest = profile.interest, !.tinder_city = profile.city,
                    !.tinder_normalized_city = profile.normalized_city,
                    !.tinder_name = profile.name, !.tinder_bio = profile.bio]

\* save_profile_from_context: the draft and the stored row afterwards; with
\* edit_for_submit set only the contest draft is written
save_profile_from_context(ud, stored, t) ==
    LET row == profile_from_context(ud, profile_source(ud, stored), t) IN
    IF ud.edit_for_submit
    THEN [user_data |-> [ud EXCEPT !.contest_profile = row], profile |-> stored,
          written |-> FALSE]
    ELSE [user_data |-> ud, profile |-> row, written |-> TRUE]

\* submit_name: split_name of an empty text raises, the update is dropped
submit_name(ud, text) ==
    LET sn == split_name(strip(text)) IN
    IF sn.raised THEN Out("ENTER_NAME", ud, "", FALSE)
    ELSE IF Len(sn.last) = 0 THEN Out("ENTER_NAME", ud, "name_need_last", FALSE)
    ELSE Out("ENTER_AGE",
             [ud EXCEPT !.name = sn.first \o <<" ">> \o sn.last,
                        !.first_name_only = sn.first],
             "ask_age", FALSE)

submit_age(ud, text) ==
    LET txt == strip(text) IN
    IF ~isdigit(txt) THEN Out("ENTER_AGE", ud, "age_not_number", FALSE)
    ELSE IF int(txt) < 5 \/ int(txt) > 120 THEN Out("ENTER_AGE", ud, "age_invalid", FALSE)
    ELSE Out("ENTER_GENDER", [ud EXCEPT !.age = int(txt)], "ask_gender", FALSE)

submit_gender_text(ud, text) ==
    LET gender_text == lower(strip(text)) IN
    IF gender_text \in {lower(T_Male), <<"m">>, <<"m", "a", "n">>}
    THEN Out("ENTER_INSTAGRAM", [ud EXCEPT !.gender = "Male"], "ask_instagram", FALSE)
    ELSE IF gender_text \in {<<"f", "e", "m", "a", "l", "e">>, <<"f">>,
                              <<"w", "o", "m", "a", "n">>}
    THEN Out("ENTER_INSTAGRAM", [ud EXCEPT !.gender = "Female"], "ask_instagram", FALSE)
    ELSE Out("ENTER_GENDER", ud, "gender_invalid_choice", FALSE)

\* clear_santa_state
clear_santa_state(ud) ==
    [ud EXCEPT !.santa_active = FALSE, !.santa_name = <<>>, !.santa_existing_number = 0]

\* santa_name_step
santa_name_step(ud, text) ==
    LET name == strip(text) IN
    IF ~ud.santa_active THEN Out(END, ud, "", FALSE)
    ELSE IF Len(name) = 0 THEN Out("SANTA_NAME", ud, "santa_name_prompt", FALSE)
    ELSE Out("SANTA_GIFT", [ud EXCEPT !.santa_name = name], "santa_gift_prompt", FALSE)

\* shop_recipient_text
shop_recipient_text(ud, text) ==
    LET username == parse_username(text)
        ud1 == [ud EXCEPT !.shop_recipient_username = username, !.shop_recipient_id = 0]
    IN IF Len(username) = 0 THEN Out("SHOP_RECIPIENT", ud, "shop_recipient_invalid", FALSE)
       ELSE IF ud.shop_item = "" THEN Out(END, ud1, "shop_recipient_saved", FALSE)
       ELSE Out("SHOP_FILL_WHO", ud1, "shop_fill_who", FALSE)

\* ------------------------------------------------------------------------
\* The guided flows of one user
\* ------------------------------------------------------------------------
MaxActiveFlows == 1

\* how many conversations the user enters in one behaviour
MaxFlowEntries == 2

\* shop_items: the prices of the ticket and of the hoodie
TicketPrice == 100

HoodiePrice == 450

ItemKinds == {"ticket", "hoodie"}

Price(kind) == IF kind = "hoodie" THEN HoodiePrice ELSE TicketPrice

AgeTexts == {T_abc, T_17, T_18, T_121}
GenderTexts == {T_abc, T_Male, T_girl}
InterestTexts == {T_abc, T_girl}
CityTexts == {T_Msk, T_Spb, T_bang}
NameTexts == {T_Ann}
BioTexts == {T_abc}
MediaTexts == {T_abc, T_done}
ContestNameTexts == {T_Ann, T_AnnLee, T_space}
ContestAgeTexts == {T_abc, T_4, T_17, T_121}
ContestGenderTexts == {T_abc, T_F, T_Male}
SantaNameTexts == {T_space, T_Ann}
RecipientTexts == {T_atbob, T_AnnLee, T_at}
EmailTexts == {T_abc}
SizeTexts == {T_M}
AddressTexts == {T_abc}

\* the rows of table purchases in one behaviour
MaxPurchases == 3

\* register_handlers: the conversations in the order they are added, and the
\* states of each that have a text MessageHandler
ConvOrder == <<"submit", "santa", "shop", "tinder">>

TextStates(c) ==
    CASE c = "submit" -> {"ENTER_NAME", "ENTER_AGE", "ENTER_GENDER", "ENTER_INSTAGRAM", "ENTER_PHOTO"}
      [] c = "santa" -> {"SANTA_NAME", "SANTA_GIFT"}
      [] c = "shop" -> {"SHOP_RECIPIENT", "SHOP_NAME", "SHOP_EMAIL", "SHOP_SIZE", "SHOP_ADDRESS"}
      [] c = "tinder" -> {"TINDER_AGE", "TINDER_GENDER", "TINDER_INTEREST", "TINDER_CITY",
                          "TINDER_NAME", "TINDER_BIO", "TINDER_MEDIA"}

PhotoStates(c) ==
    CASE c = "submit" -> {"ENTER_PHOTO"}
      [] c = "santa" -> {"SANTA_GIFT"}
      [] c = "shop" -> {}
      [] c = "tinder" -> {"TINDER_MEDIA"}

\* the update goes to the first conversation whose current state handles it
TextTo(c, state) ==
    /\ conv_state[c] = state
    /\ \E k \in 1..Len(ConvOrder) :
          /\ ConvOrder[k] = c
          /\ \A j \in 1..(k - 1) : conv_state[ConvOrder[j]] \notin TextStates(ConvOrder[j])

PhotoTo(c, state) ==
    /\ conv_state[c] = state
    /\ \E k \in 1..Len(ConvOrder) :
          /\ ConvOrder[k] = c
          /\ \A j \in 1..(k - 1) : conv_state[ConvOrder[j]] \notin PhotoStates(ConvOrder[j])

\* a command or button that is an entry point: the conversation is not running
CanEnter(c) ==
    /\ conv_state[c] = END
    /\ Cardinality({d \in DOMAIN conv_state : conv_state[d] # END}) < MaxActiveFlows
    /\ flows_entered < MaxFlowEntries

\* an entry point that returned the state next: one more conversation entered
Entered(next) ==
    flows_entered' = IF next # END THEN flows_entered + 1 ELSE flows_entered

flowRest0 == <<tinder_swipes, tinder_matches, now, ret, blackjack_sessions,
               games_played, blackjack_boosts, bj_last, raceVars, gameVars, voteVars, placeVars>>

entryRest == <<flowRest0, user_wallets, purchases, user_contacts>>

flowRest == <<entryRest, flows_entered>>

FlowRec(handler, text, reply, writes) ==
    [handler |-> handler, text |-> text, reply |-> reply, writes |-> writes]

\* ensure_user_context: upsert_user_basic stores the sender and last_seen
ensure_user_context(row, t) == [exists |-> TRUE, last_seen |-> t]

\* the tables a handler has written: the users row when it calls ensure_user_context
Writes(ensure, tables) == tables \cup (IF ensure THEN {"users"} ELSE {})

\* a step of a conversation that writes at most the users row and the profile
Step(c, handler, text, out, ensure) ==
    /\ conv_state' = [conv_state EXCEPT ![c] = out.next]
    /\ LET saved == save_profile_from_context(out.user_data, tinder_profiles[FlowUser], now)
       IN /\ user_data' = IF out.save THEN saved.user_data ELSE out.user_data
          /\ tinder_profiles' =
                IF out.save THEN [tinder_profiles EXCEPT ![FlowUser] = saved.profile]
                ELSE tinder_profiles
          /\ flow_last' = FlowRec(handler, text, out.reply,
                Writes(ensure, IF out.save /\ saved.written THEN {"tinder_profiles"} ELSE {}))
    /\ users_row' = IF ensure THEN ensure_user_context(users_row, now) ELSE users_row
    /\ UNCHANGED <<tinder_media_rows, secret_santa, bj_pending, tinder_current_target, flowRest>>

\* start_tinder_flow: clear_transient_state, an empty media list, the age prompt
start_tinder_flow(ud) == [clear_santa_state(ud) EXCEPT !.tinder_media = <<>>]

\* tinder_start_cb (button tinder:start), /myprofile
TinderStart ==
    /\ CanEnter("tinder")
    /\ IF tinder_profiles[FlowUser].exists
       THEN /\ flow_last' = FlowRec("tinder_start_cb", <<>>, "own_profile", {"users"})
            /\ UNCHANGED <<conv_state, user_data, bj_pending>>
       ELSE /\ conv_state' = [conv_state EXCEPT !.tinder = "TINDER_AGE"]
            /\ user_data' = start_tinder_flow(user_data)
            /\ bj_pending' = [bj_pending EXCEPT ![FlowUser] = FALSE]
            /\ flow_last' = FlowRec("tinder_start_cb", <<>>, "tinder_age_prompt", {"users"})
    /\ Entered(conv_state'.tinder)
    /\ users_row' = ensure_user_context(users_row, now)
    /\ UNCHANGED <<tinder_profiles, tinder_media_rows, secret_santa, tinder_current_target,
                   entryRest>>

\* the fields of the edit menu that open a step of the flow
EditFields == {"age", "gender", "interest", "city", "name", "bio", "media"}

\* tinder_edit_dispatch (buttons tedit:<field>); tedit:browse shows the next card
TinderEditDispatch(field) ==
    LET ud1 == [load_profile_into_context(user_data, tinder_profiles[FlowUser])
                   EXCEPT !.tinder_edit_mode = TRUE]
    IN /\ CanEnter("tinder")
       /\ conv_state' = [conv_state EXCEPT !.tinder =
             CASE field = "age" -> "TINDER_AGE"
               [] field = "gender" -> "TINDER_GENDER"
               [] field = "interest" -> "TINDER_INTEREST"
               [] field = "city" -> "TINDER_CITY"
               [] field = "name" -> "TINDER_NAME"
               [] field = "bio" -> "TINDER_BIO"
               [] field = "media" -> "TINDER_MEDIA"
               [] field = "browse" -> END]
       /\ user_data' = IF field = "media" THEN [ud1 EXCEPT !.tinder_media = <<>>]
                       ELSE IF field = "browse" THEN [ud1 EXCEPT !.tinder_edit_mode = FALSE]
                       ELSE ud1
       /\ IF field = "browse"
          THEN \E t \in send_next_candidate_card(tinder_profiles, tinder_swipes,
                                                 tinder_current_target[FlowUser], FlowUser) :
                  tinder_current_target' = [tinder_current_target EXCEPT ![FlowUser] = t]
          ELSE UNCHANGED tinder_current_target
       /\ flow_last' = FlowRec("tinder_edit_dispatch", <<>>, field, {"users"})
       /\ Entered(conv_state'.tinder)
       /\ users_row' = ensure_user_context(users_row, now)
       /\ UNCHANGED <<tinder_profiles, tinder_media_rows, secret_santa, bj_pending, entryRest>>

TinderAge(text) ==
    /\ TextTo("tinder", "TINDER_AGE")
    /\ Step("tinder", "tinder_age", text, tinder_age(user_data, text), TRUE)

TinderGenderText(text) ==
    /\ TextTo("tinder", "TINDER_GENDER")
    /\ Step("tinder", "tinder_gender_text", text, tinder_gender_text(user_data, text), TRUE)

TinderInterestText(text) ==
    /\ TextTo("tinder", "TINDER_INTEREST")
    /\ Step("tinder", "tinder_interest_text", text, tinder_interest_text(user_data, text), TRUE)

TinderCity(text) ==
    /\ TextTo("tinder", "TINDER_CITY")
    /\ Step("tinder", "tinder_city", text, tinder_city(user_data, text), TRUE)

TinderName(text) ==
    /\ TextTo("tinder", "TINDER_NAME")
    /\ Step("tinder", "tinder_name", text, tinder_name(user_data, text), TRUE)

TinderBio(text) ==
    /\ TextTo("tinder", "TINDER_BIO")
    /\ Step("tinder", "tinder_bio", text, tinder_bio(user_data, text), TRUE)

TinderMedia(kind) ==
    /\ PhotoTo("tinder", "TINDER_MEDIA")
    /\ Step("tinder", "tinder_media", <<>>, tinder_media(user_data, kind), TRUE)

TinderMediaText(text) ==
    /\ TextTo("tinder", "TINDER_MEDIA")
    /\ Step("tinder", "tinder_media_text", text, tinder_media_text(user_data, text), TRUE)

\* /done in the media step: tinder_confirm
TinderDoneCommand ==
    /\ conv_state.tinder = "TINDER_MEDIA"
    /\ Step("tinder", "tinder_confirm", <<>>,
            Out("TINDER_CONFIRM", user_data, "tinder_profile_line", FALSE), TRUE)

\* tinder_save_cb (button tinder:save); no referrer. With edit_for_submit set
\* only the contest draft is written (its media list is left out)
TinderSave ==
    /\ conv_state.tinder = "TINDER_CONFIRM"
    /\ conv_state' = [conv_state EXCEPT !.tinder = END]
    /\ IF user_data.edit_for_submit
       THEN /\ user_data' = [user_data EXCEPT
                   !.contest_profile =
                       tinder_save_profile(user_data, tinder_profiles[FlowUser], now),
                   !.tinder_media = <<>>, !.tinder_edit_mode = FALSE]
            /\ flow_last' = FlowRec("tinder_save_cb", <<>>, "tinder_saved", {"users"})
            /\ UNCHANGED <<tinder_profiles, tinder_media_rows>>
       ELSE /\ tinder_profiles' = [tinder_profiles EXCEPT ![FlowUser] =
                  tinder_save_profile(user_data, tinder_profiles[FlowUser], now)]
            /\ tinder_media_rows' =
                  IF Len(user_data.tinder_media) > 0 THEN user_data.tinder_media
                  ELSE tinder_media_rows
            /\ user_data' = [user_data EXCEPT !.tinder_media = <<>>, !.tinder_edit_mode = FALSE]
            /\ flow_last' = FlowRec("tinder_save_cb", <<>>, "tinder_saved",
                  {"users", "tinder_profiles"} \cup
                  (IF Len(user_data.tinder_media) > 0 THEN {"tinder_media"} ELSE {}))
    /\ users_row' = ensure_user_context(users_row, now)
    /\ UNCHANGED <<secret_santa, bj_pending, tinder_current_target, flowRest>>

\* tinder_edit_menu (button tinder:edit): with no profile row the flow restarts
TinderEditMenu ==
    /\ conv_state.tinder = "TINDER_CONFIRM"
    /\ IF tinder_profiles[FlowUser].exists
       THEN /\ conv_state' = [conv_state EXCEPT !.tinder = END]
            /\ flow_last' = FlowRec("tinder_edit_menu", <<>>, "tinder_edit_prompt", {"users"})
            /\ UNCHANGED <<user_data, bj_pending>>
       ELSE /\ conv_state' = [conv_state EXCEPT !.tinder = "TINDER_AGE"]
            /\ user_data' = start_tinder_flow(user_data)
            /\ bj_pending' = [bj_pending EXCEPT ![FlowUser] = FALSE]
            /\ flow_last' = FlowRec("tinder_edit_menu", <<>>, "tinder_age_prompt", {"users"})
    /\ users_row' = ensure_user_context(users_row, now)
    /\ UNCHANGED <<tinder_profiles, tinder_media_rows, secret_santa, tinder_current_target,
                   flowRest>>

SubmitName(text) ==
    /\ TextTo("submit", "ENTER_NAME")
    /\ Step("submit", "submit_name", text, submit_name(user_data, text), FALSE)

SubmitAge(text) ==
    /\ TextTo("submit", "ENTER_AGE")
    /\ Step("submit", "submit_age", text, submit_age(user_data, text), FALSE)

SubmitGenderText(text) ==
    /\ TextTo("submit", "ENTER_GENDER")
    /\ Step("submit", "submit_gender_text", text, submit_gender_text(user_data, text), FALSE)

SantaRow(gift_number, name, gift_photo_id) ==
    [exists |-> TRUE, gift_number |-> gift_number, name |-> name,
     gift_photo_id |-> gift_photo_id]

\* assign_secret_santa_number: the row afterwards (the first number given is 1)
assign_secret_santa_number(row) ==
    IF row.exists THEN row ELSE SantaRow(1, <<>>, "")

\* update_secret_santa_details: INSERT OR IGNORE, then UPDATE name and photo
update_secret_santa_details(row, name, gift_photo_id) ==
    SantaRow(assign_secret_santa_number(row).gift_number, name, gift_photo_id)

\* santa_start (/santa, button santa:start) and santa_edit_start (button santa:edit);
\* the feature is enabled
SantaStart(edit_mode) ==
    LET existing_number == IF secret_santa.exists THEN secret_santa.gift_number ELSE 0
        has_details == /\ secret_santa.exists
                       /\ Len(secret_santa.name) > 0
                       /\ secret_santa.gift_photo_id # ""
        ud1 == [clear_santa_state(user_data) EXCEPT !.santa_active = TRUE]
    IN /\ CanEnter("santa")
       /\ bj_pending' = [bj_pending EXCEPT ![FlowUser] = FALSE]
       /\ IF existing_number # 0 /\ has_details /\ ~edit_mode
          THEN /\ user_data' = ud1
               /\ flow_last' = FlowRec("santa_start", <<>>, "santa_complete", {"users"})
               /\ UNCHANGED conv_state
          ELSE /\ user_data' = [ud1 EXCEPT !.santa_existing_number = existing_number]
               /\ conv_state' = [conv_state EXCEPT !.santa = "SANTA_NAME"]
               /\ flow_last' = FlowRec("santa_start", <<>>, "santa_name_prompt", {"users"})
       /\ Entered(conv_state'.santa)
       /\ users_row' = ensure_user_context(users_row, now)
       /\ UNCHANGED <<tinder_profiles, tinder_media_rows, secret_santa,
                      tinder_current_target, entryRest>>

SantaName(text) ==
    /\ TextTo("santa", "SANTA_NAME")
    /\ Step("santa", "santa_name_step", text, santa_name_step(user_data, text), TRUE)

\* santa_insta_step on a text message: no photo
SantaGiftText(text) ==
    /\ TextTo("santa", "SANTA_GIFT")
    /\ Step("santa", "santa_insta_step", text,
            IF ~user_data.santa_active THEN Out(END, user_data, "", FALSE)
            ELSE Out("SANTA_GIFT", user_data, "santa_gift_prompt", FALSE), TRUE)

\* santa_insta_step on a photo
SantaGiftPhoto ==
    /\ PhotoTo("santa", "SANTA_GIFT")
    /\ conv_state' = [conv_state EXCEPT !.santa = END]
    /\ IF ~user_data.santa_active
       THEN /\ flow_last' = FlowRec("santa_insta_step", <<>>, "", {"users"})
            /\ UNCHANGED <<user_data, secret_santa>>
       ELSE /\ secret_santa' =
                  IF Len(user_data.santa_name) > 0
                  THEN update_secret_santa_details(secret_santa, user_data.santa_name, "photo")
                  ELSE [assign_secret_santa_number(secret_santa) EXCEPT
                           !.gift_photo_id = "photo"]
            /\ user_data' = clear_santa_state(user_data)
            /\ flow_last' = FlowRec("santa_insta_step", <<>>,
                  IF user_data.santa_existing_number # 0 THEN "santa_details_updated"
                  ELSE "santa_assigned", {"users", "secret_santa"})
    /\ users_row' = ensure_user_context(users_row, now)
    /\ UNCHANGED <<tinder_profiles, tinder_media_rows, bj_pending, tinder_current_target,
                   flowRest>>

\* a row of table purchases; data is data_json, with filled_by = "" while it is NULL
PurchaseData(contact, filled_by) ==
    [full_name |-> contact.full_name, email |-> contact.email, address |-> contact.address,
     size |-> contact.size, filled_by |-> filled_by]

PurchaseRow(user_id, item, recipient_id, recipient_username, data, notified) ==
    [user_id |-> user_id, item |-> item, recipient_id |-> recipient_id,
     recipient_username |-> recipient_username, data |-> data, notified |-> notified]

\* a row of table user_contacts
ContactRow(full_name, email, address, size) ==
    [exists |-> TRUE, full_name |-> full_name, email |-> email, address |-> address,
     size |-> size]

\* db.get_contact: the row, or None read as four empty details
get_contact(row) == IF row.exists THEN row ELSE ContactRow(<<>>, <<>>, <<>>, <<>>)

\* db.upsert_contact: COALESCE(excluded.x, x) keeps a stored detail when the new one is None
upsert_contact(row, full_name, email, address, size) ==
    LET old == get_contact(row)
    IN ContactRow(IF Len(full_name) > 0 THEN full_name ELSE old.full_name,
                  IF Len(email) > 0 THEN email ELSE old.email,
                  IF Len(address) > 0 THEN address ELSE old.address,
                  IF Len(size) > 0 THEN size ELSE old.size)

\* db.set_purchase_recipient: the id, COALESCE(recipient_username, username), notified = 0
set_purchase_recipient(rows, pid, recipient_id, username) ==
    [rows EXCEPT ![pid].recipient_id = recipient_id,
                 ![pid].recipient_username =
                     IF Len(rows[pid].recipient_username) > 0 THEN rows[pid].recipient_username
                     ELSE username,
                 ![pid].notified = FALSE]

\* what a shop handler sees besides the draft: the balance, the two tables, what
\* find_user_by_username answers (0 is None) and whether the notification is delivered
ShopEnv(balance, rows, contact, resolved, sent) ==
    [balance |-> balance, purchases |-> rows, contact |-> contact, resolved |-> resolved,
     sent |-> sent]

\* what a shop handler does: the state it returns (when it does not raise), the
\* draft, the reply, the balance and tables afterwards, and the tables written
ShopOut(next, ud, reply, balance, rows, contact, raised, writes) ==
    [next |-> next, user_data |-> ud, reply |-> reply, balance |-> balance,
     purchases |-> rows, contact |-> contact, raised |-> raised, writes |-> writes]

Plain(next, ud, reply, env) ==
    ShopOut(next, ud, reply, env.balance, env.purchases, env.contact, FALSE, {})

\* shop_finalize. A new purchase is paid for and inserted; a purchase being filled
\* in by its recipient is updated and the function returns before it clears the
\* draft; a new purchase that is not a gift reaches the read of notified, which is
\* bound on the gift branch only, and raises after its writes
shop_finalize(ud, env) ==
    LET kind == ud.shop_item
        existing_purchase_id == ud.shop_purchase_id
        new_purchase == existing_purchase_id = 0
        price == Price(kind)
        recipient_id ==
            IF ud.shop_recipient_id = 0 /\ Len(ud.shop_recipient_username) > 0
                  /\ env.resolved # 0
            THEN env.resolved ELSE ud.shop_recipient_id
        ud1 == [ud EXCEPT !.shop_recipient_id = recipient_id]
        c == ud.shop_contact
        balance1 == IF new_purchase THEN env.balance - price ELSE env.balance
        contact1 == IF ud.shop_skip_details THEN env.contact
                    ELSE upsert_contact(env.contact, c.full_name, c.email, c.address, c.size)
        data == PurchaseData(c, IF ud.shop_skip_details THEN "recipient" ELSE "buyer")
        purchase_id == Len(env.purchases) + 1
        gift == \/ Len(ud.shop_recipient_username) > 0
                \/ (recipient_id # 0 /\ recipient_id # FlowUser)
        notified == recipient_id # 0 /\ env.sent
        rows1 ==
            IF new_purchase
            THEN Append(env.purchases,
                        PurchaseRow(FlowUser, kind, recipient_id, ud.shop_recipient_username,
                                    data, gift /\ notified))
            ELSE IF existing_purchase_id \in DOMAIN env.purchases
            THEN [env.purchases EXCEPT ![existing_purchase_id].data = data,
                                       ![existing_purchase_id].notified = TRUE]
            ELSE env.purchases
        cleared == [ud1 EXCEPT !.shop_item = "", !.shop_recipient_id = 0,
                               !.shop_recipient_username = <<>>,
                               !.shop_contact = NoShopContact]
        writes == {"purchases"}
                     \cup (IF new_purchase THEN {"user_wallets"} ELSE {})
                     \cup (IF ud.shop_skip_details THEN {} ELSE {"user_contacts"})
    IN IF kind = "" THEN Plain(END, ud, "", env)
       ELSE IF new_purchase /\ env.balance < price THEN Plain(END, ud1, "shop_no_points", env)
       ELSE IF ~new_purchase
       THEN ShopOut(END, ud1, "shop_fill_saved", balance1, rows1, contact1, FALSE, writes)
       ELSE IF ~gift
       THEN ShopOut(END, ud1, "shop_done", balance1, rows1, contact1, TRUE, writes)
       ELSE ShopOut(END, cleared,
                    IF notified THEN "shop_gift_notified_sender"
                    ELSE "shop_gift_pending_sender", balance1, rows1, contact1, FALSE,
                    writes)

\* shop_collect_details: the ticket asks for the name, the hoodie takes the saved
\* name and email and asks for the size
shop_collect_details(ud, env, kind) ==
    LET saved == get_contact(env.contact)
        has_saved == Len(saved.full_name) > 0 /\ Len(saved.email) > 0
        ud1 == [ud EXCEPT !.shop_contact = ShopContact(<<>>, <<>>, <<>>, <<>>)]
    IN IF kind = "ticket"
       THEN Plain("SHOP_NAME", ud1,
                  IF has_saved THEN "shop_use_saved_contact" ELSE "shop_ticket_name", env)
       ELSE IF kind = "hoodie"
       THEN Plain("SHOP_SIZE",
                  IF has_saved
                  THEN [ud1 EXCEPT !.shop_contact.full_name = saved.full_name,
                                   !.shop_contact.email = saved.email]
                  ELSE ud1, "shop_hoodie_size", env)
       ELSE Plain(END, ud, "shop_empty", env)

\* shop_keep_gift_cb (buttons shop:keep, shop:gift)
shop_keep_gift_cb(ud, env, choice) ==
    LET ud1 == [ud EXCEPT !.shop_recipient_id = 0, !.shop_recipient_username = <<>>,
                          !.shop_skip_details = FALSE]
    IN IF ud.shop_item = "" THEN Plain(END, ud, "shop_empty", env)
       ELSE IF choice = "gift" THEN Plain("SHOP_RECIPIENT", ud1, "shop_enter_recipient", env)
       ELSE shop_collect_details(ud1, env, ud.shop_item)

\* shop_fill_who_cb (buttons shop:fill:me, shop:fill:recipient)
shop_fill_who_cb(ud, env, choice) ==
    IF ud.shop_item = "" THEN Plain(END, ud, "", env)
    ELSE IF choice = "recipient"
    THEN shop_finalize([ud EXCEPT !.shop_skip_details = TRUE], env)
    ELSE shop_collect_details([ud EXCEPT !.shop_skip_details = FALSE], env, ud.shop_item)

\* shop_use_contact_cb (buttons shop:usecontact, shop:newcontact)
shop_use_contact_cb(ud, env, choice) ==
    LET saved == get_contact(env.contact)
        ud1 == [ud EXCEPT !.shop_contact =
                   ShopContact(saved.full_name, saved.email, saved.address, saved.size)]
    IN IF choice = "usecontact" /\ Len(saved.full_name) > 0 /\ Len(saved.email) > 0
       THEN IF ud.shop_item = "" THEN Plain(END, ud1, "", env)
            ELSE IF ud.shop_item = "ticket" THEN shop_finalize(ud1, env)
            ELSE Plain("SHOP_NAME", ud1, "shop_ticket_name", env)
       ELSE Plain("SHOP_NAME", ud, "shop_ticket_name", env)

\* context.user_data.setdefault("shop_contact", {})
setdefault_contact(ud) ==
    IF ud.shop_contact.set THEN ud
    ELSE [ud EXCEPT !.shop_contact = ShopContact(<<>>, <<>>, <<>>, <<>>)]

\* shop_email_text
shop_email_text(ud, env, text) ==
    LET ud1 == [setdefault_contact(ud) EXCEPT !.shop_contact.email = strip(text)]
    IN IF ud.shop_item = "" THEN Plain(END, ud1, "", env)
       ELSE IF ud.shop_item = "ticket" THEN shop_finalize(ud1, env)
       ELSE Plain("SHOP_SIZE", ud1, "shop_hoodie_size", env)

\* shop_name_text: with an email already in the draft it goes on as shop_email_text
\* does, with the same message
shop_name_text(ud, env, text) ==
    LET ud1 == [setdefault_contact(ud) EXCEPT !.shop_contact.full_name = strip(text)]
    IN IF Len(ud1.shop_contact.email) > 0 THEN shop_email_text(ud1, env, text)
       ELSE Plain("SHOP_EMAIL", ud1, "shop_ticket_email", env)

\* shop_size_text
shop_size_text(ud, env, text) ==
    Plain("SHOP_ADDRESS", [setdefault_contact(ud) EXCEPT !.shop_contact.size = strip(text)],
          "shop_hoodie_address", env)

\* shop_address_text
shop_address_text(ud, env, text) ==
    shop_finalize([setdefault_contact(ud) EXCEPT !.shop_contact.address = strip(text)], env)

\* gift_contact_new_flow: ask for the first detail the item still needs
gift_contact_new_flow(ud, env, kind) ==
    LET c == ud.shop_contact
        need_name == Len(c.full_name) = 0 \/ Len(c.email) = 0
    IN IF kind = "ticket"
       THEN IF ~need_name THEN shop_finalize(ud, env)
            ELSE Plain("SHOP_NAME", ud, "shop_ticket_name", env)
       ELSE IF kind = "hoodie"
       THEN IF need_name THEN Plain("SHOP_NAME", ud, "shop_ticket_name", env)
            ELSE IF Len(c.size) = 0 THEN Plain("SHOP_SIZE", ud, "shop_hoodie_size", env)
            ELSE IF Len(c.address) = 0 THEN Plain("SHOP_ADDRESS", ud, "shop_hoodie_address", env)
            ELSE shop_finalize(ud, env)
       ELSE Plain(END, ud, "", env)

\* gift_contact_choice_cb (buttons giftcontact:use, giftcontact:new)
gift_contact_choice_cb(ud, env, choice) ==
    IF ud.shop_item = "" THEN Plain(END, ud, "", env)
    ELSE IF choice = "use" /\ env.contact.exists
    THEN gift_contact_new_flow(
            [ud EXCEPT !.shop_contact =
                ShopContact(env.contact.full_name, env.contact.email, env.contact.address,
                            env.contact.size)], env, ud.shop_item)
    ELSE gift_contact_new_flow(
            [ud EXCEPT !.shop_contact = ShopContact(<<>>, <<>>, <<>>, <<>>)], env,
            ud.shop_item)

\* gift_fill_start (button giftfill:<pid>) by the recipient of purchase pid
gift_fill_start(ud, env, pid, username) ==
    LET row == env.purchases[pid]
        rows1 == set_purchase_recipient(env.purchases, pid, FlowUser, username)
        saved == get_contact(env.contact)
        pick(a, b) == IF Len(a) > 0 THEN a ELSE b
        ud1 == [ud EXCEPT !.shop_item = row.item, !.shop_purchase_id = pid,
                          !.shop_contact =
                              ShopContact(pick(row.data.full_name, saved.full_name),
                                          pick(row.data.email, saved.email),
                                          pick(row.data.address, saved.address),
                                          pick(row.data.size, saved.size)),
                          !.shop_recipient_id = FlowUser,
                          !.shop_recipient_username = username,
                          !.shop_skip_details = FALSE]
        env1 == [env EXCEPT !.purchases = rows1]
    IN IF Len(saved.full_name) > 0 \/ Len(saved.email) > 0 \/ Len(saved.address) > 0
             \/ Len(saved.size) > 0
       THEN Plain("SHOP_FILL_CONTACT", ud1, "shop_use_saved_contact", env1)
       ELSE gift_contact_new_flow(ud1, env1, row.item)

\* a step of the shop conversation: a handler that raised leaves the state it was in
ShopStep(handler, text, r) ==
    /\ Len(r.purchases) <= MaxPurchases
    /\ conv_state' = IF r.raised THEN conv_state ELSE [conv_state EXCEPT !.shop = r.next]
    /\ user_data' = r.user_data
    /\ user_wallets' = [user_wallets EXCEPT ![FlowUser] = r.balance]
    /\ purchases' = r.purchases
    /\ user_contacts' = r.contact
    /\ users_row' = ensure_user_context(users_row, now)
    /\ flow_last' = FlowRec(handler, text, r.reply,
          {"users"} \cup r.writes
                    \cup (IF r.purchases # purchases THEN {"purchases"} ELSE {}))
    /\ UNCHANGED <<tinder_profiles, tinder_media_rows, secret_santa, bj_pending,
                   tinder_current_target, flowRest0>>

\* the answers of find_user_by_username (0 is None) and of the delivery
Env(resolved, sent) ==
    ShopEnv(user_wallets[FlowUser], purchases, user_contacts, resolved, sent)

Resolutions == {0, 2}

\* shop_buy_start (buttons shopbuy:<id>)
ShopBuyStart(kind) ==
    /\ CanEnter("shop")
    /\ LET r == IF user_wallets[FlowUser] < Price(kind)
                THEN Plain(END, user_data, "shop_no_points", Env(0, FALSE))
                ELSE Plain("SHOP_KEEP_OR_GIFT", [user_data EXCEPT !.shop_item = kind],
                           "shop_choose_keep_gift", Env(0, FALSE))
       IN /\ ShopStep("shop_buy_start", <<>>, r)
          /\ Entered(r.next)

ShopKeepGift(choice) ==
    /\ conv_state.shop = "SHOP_KEEP_OR_GIFT"
    /\ ShopStep("shop_keep_gift_cb", <<>>, shop_keep_gift_cb(user_data, Env(0, FALSE), choice))
    /\ UNCHANGED flows_entered

ShopRecipient(text) ==
    /\ TextTo("shop", "SHOP_RECIPIENT")
    /\ Step("shop", "shop_recipient_text", text, shop_recipient_text(user_data, text), TRUE)

ShopFillWho(choice) ==
    /\ conv_state.shop = "SHOP_FILL_WHO"
    /\ \E resolved \in Resolutions, sent \in BOOLEAN :
          ShopStep("shop_fill_who_cb", <<>>,
                   shop_fill_who_cb(user_data, Env(resolved, sent), choice))
    /\ UNCHANGED flows_entered

\* the saved-contact buttons are shown in SHOP_NAME when a name and an email are saved
ShopUseContact(choice) ==
    /\ conv_state.shop \in {"SHOP_KEEP_OR_GIFT", "SHOP_NAME"}
    /\ \E resolved \in Resolutions, sent \in BOOLEAN :
          ShopStep("shop_use_contact_cb", <<>>,
                   shop_use_contact_cb(user_data, Env(resolved, sent), choice))
    /\ UNCHANGED flows_entered

ShopName(text) ==
    /\ TextTo("shop", "SHOP_NAME")
    /\ \E resolved \in Resolutions, sent \in BOOLEAN :
          ShopStep("shop_name_text", text, shop_name_text(user_data, Env(resolved, sent), text))
    /\ UNCHANGED flows_entered

ShopEmail(text) ==
    /\ TextTo("shop", "SHOP_EMAIL")
    /\ \E resolved \in Resolutions, sent \in BOOLEAN :
          ShopStep("shop_email_text", text, shop_email_text(user_data, Env(resolved, sent), text))
    /\ UNCHANGED flows_entered

ShopSize(text) ==
    /\ TextTo("shop", "SHOP_SIZE")
    /\ ShopStep("shop_size_text", text, shop_size_text(user_data, Env(0, FALSE), text))
    /\ UNCHANGED flows_entered

ShopAddress(text) ==
    /\ TextTo("shop", "SHOP_ADDRESS")
    /\ \E resolved \in Resolutions, sent \in BOOLEAN :
          ShopStep("shop_address_text", text,
                   shop_address_text(user_data, Env(resolved, sent), text))
    /\ UNCHANGED flows_entered

\* gift_fill_start: the button under the notification of a gift addressed to the user
GiftFillStart(pid) ==
    /\ CanEnter("shop")
    /\ pid \in DOMAIN purchases
    /\ purchases[pid].recipient_id \in {0, FlowUser}
    /\ purchases[pid].recipient_username = T_me
    /\ LET r == gift_fill_start(user_data, Env(0, FALSE), pid, T_me)
       IN /\ ShopStep("gift_fill_start", <<>>, r)
          /\ Entered(r.next)

GiftContactChoice(choice) ==
    /\ conv_state.shop = "SHOP_FILL_CONTACT"
    /\ ShopStep("gift_contact_choice_cb", <<>>,
                gift_contact_choice_cb(user_data, Env(0, FALSE), choice))
    /\ UNCHANGED flows_entered

\* give_points_cmd: an admin changes the user's balance by delta, which may be
\* negative, while the user is in the shop conversation
GivePoints(delta) ==
    /\ conv_state.shop # END
    /\ user_wallets[FlowUser] + delta >= 0
    /\ user_wallets' = [user_wallets EXCEPT ![FlowUser] = @ + delta]
    /\ flow_last' = FlowRec("give_points_cmd", <<>>, "points_given", {"user_wallets"})
    /\ UNCHANGED <<conv_state, user_data, users_row, tinder_profiles, tinder_media_rows,
                   secret_santa, bj_pending, tinder_current_target, purchases, user_contacts,
                   flows_entered, flowRest0>>

\* a ticket that user 2 gave to the user (@me) and left for them to fill in; the
\* notification with its button has been delivered
PendingGift ==
    PurchaseRow(2, "ticket", FlowUser, T_me, PurchaseData(NoShopContact, "recipient"), TRUE)

\* /cancel: the fallback of the first running conversation. submit_cancel clears
\* the whole user_data, santa_cancel the gift-draw keys only
Cancel(c) ==
    /\ conv_state[c] # END
    /\ \E k \in 1..Len(ConvOrder) :
          /\ ConvOrder[k] = c
          /\ \A j \in 1..(k - 1) : conv_state[ConvOrder[j]] = END
    /\ conv_state' = [conv_state EXCEPT ![c] = END]
    /\ IF c = "santa"
       THEN /\ user_data' = clear_santa_state(user_data)
            /\ UNCHANGED <<bj_pending, tinder_current_target>>
       ELSE /\ user_data' = EmptyUserData
            /\ bj_pending' = [bj_pending EXCEPT ![FlowUser] = FALSE]
            /\ tinder_current_target' = [tinder_current_target EXCEPT ![FlowUser] = None]
    /\ users_row' = IF c = "santa" THEN ensure_user_context(users_row, now) ELSE users_row
    /\ flow_last' = FlowRec("cancel", <<>>, "submission_cancel", Writes(c = "santa", {}))
    /\ UNCHANGED <<tinder_profiles, tinder_media_rows, secret_santa, flowRest>>

InitFlow ==
    /\ DatingIdle
    /\ RaceIdle
    /\ GameIdle
    /\ VoteIdle
    /\ PlaceIdle
    /\ \E b \in {InitialBalance, TicketPrice, HoodiePrice} :
          user_wallets = [u \in Users |-> b]
    /\ blackjack_sessions = {}
    /\ bj_pending = [u \in Users |-> FALSE]
    /\ games_played = [u \in Users |-> 0]
    /\ blackjack_boosts = [u \in Users |-> 0]
    /\ bj_last = [u \in Users |-> NoBjRec]
    /\ \E st \in {END, "ENTER_NAME"} :
          /\ conv_state = [submit |-> st, santa |-> END, shop |-> END, tinder |-> END]
          /\ flows_entered = IF st = END THEN 0 ELSE 1
    /\ purchases \in {<<>>, <<PendingGift>>}
    /\ user_contacts = NoContact
    /\ user_data = EmptyUserData
    /\ tinder_media_rows = <<>>
    /\ secret_santa = NoSanta
    /\ users_row = NoUser
    /\ flow_last = NoFlowRec

NextFlow ==
    \/ TinderStart
    \/ \E field \in EditFields \cup {"browse"} : TinderEditDispatch(field)
    \/ \E text \in AgeTexts : TinderAge(text)
    \/ \E text \in GenderTexts : TinderGenderText(text)
    \/ \E text \in InterestTexts : TinderInterestText(text)
    \/ \E text \in CityTexts : TinderCity(text)
    \/ \E text \in NameTexts : TinderName(text)
    \/ \E text \in BioTexts : TinderBio(text)
    \/ \E kind \in {"photo"} : TinderMedia(kind)
    \/ \E text \in MediaTexts : TinderMediaText(text)
    \/ TinderDoneCommand
    \/ TinderSave
    \/ TinderEditMenu
    \/ \E text \in ContestNameTexts : SubmitName(text)
    \/ \E text \in ContestAgeTexts : SubmitAge(text)
    \/ \E text \in ContestGenderTexts : SubmitGenderText(text)
    \/ \E edit_mode \in BOOLEAN : SantaStart(edit_mode)
    \/ \E text \in SantaNameTexts : SantaName(text)
    \/ \E text \in {T_abc} : SantaGiftText(text)
    \/ SantaGiftPhoto
    \/ \E kind \in ItemKinds : ShopBuyStart(kind)
    \/ \E choice \in {"keep", "gift"} : ShopKeepGift(choice)
    \/ \E text \in RecipientTexts : ShopRecipient(text)
    \/ \E choice \in {"me", "recipient"} : ShopFillWho(choice)
    \/ \E choice \in {"usecontact", "newcontact"} : ShopUseContact(choice)
    \/ \E text \in NameTexts : ShopName(text)
    \/ \E text \in EmailTexts : ShopEmail(text)
    \/ \E text \in SizeTexts : ShopSize(text)
    \/ \E text \in AddressTexts : ShopAddress(text)
    \/ \E pid \in 1..MaxPurchases : GiftFillStart(pid)
    \/ \E choice \in {"use", "new"} : GiftContactChoice(choice)
    \/ \E delta \in {0 - TicketPrice} : GivePoints(delta)
    \/ \E c \in DOMAIN conv_state : Cancel(c)

SpecFlow == InitFlow /\ [][NextFlow]_vars

\* ------------------------------------------------------------------------
\* The admin wipe of a user who has swipes, matches, a round of blackjack in
\* progress and an edit of their profile under way
\* ------------------------------------------------------------------------
\* the likes stored before the wipe: any of these, each once
WipeLikes == {<<1, 2>>, <<2, 1>>, <<2, 3>>, <<3, 2>>}

SwipesOf(likes) == SetToBag({SwipeRow(l[1], l[2], "like", 0) : l \in likes})

\* the match that the second of two reciprocal likes has stored
MatchesOf(likes) ==
    SetToBag({MatchRow(Min(l[1], l[2]), Max(l[1], l[2])) :
                 l \in {m \in likes : <<m[2], m[1]>> \in likes}})

\* the users who may have a round in progress, dealt from the first stored deal
WipePlayers == {1, 2}

WipeDeal == CHOOSE n \in StoredDeals : \A m \in StoredDeals : n <= m

InitWipe ==
    /\ tinder_profiles = [u \in Users |->
          ProfileRow(IF u % 2 = 1 THEN "Male" ELSE "Female", "Any", "msk", TRUE, 0)]
    /\ \E likes \in SUBSET WipeLikes :
          /\ tinder_swipes = SwipesOf(likes)
          /\ tinder_matches = MatchesOf(likes)
    /\ tinder_current_target = [u \in Users |-> None]
    /\ now = 0
    /\ ret = NoRet
    /\ \E playing \in SUBSET WipePlayers :
          /\ blackjack_sessions = {DealtRow(u, WipeDeal, 10) : u \in playing}
          /\ user_wallets = [u \in Users |->
                IF u \in playing THEN InitialBalance - 10 ELSE InitialBalance]
          /\ bj_last = [u \in Users |->
                IF u \in playing
                THEN LET row == DealtRow(u, WipeDeal, 10)
                     IN BjRec("bet", TRUE, 10, FALSE, InitialBalance, 10, "none",
                              hand_value(row.player_hand).total,
                              hand_value(row.dealer_hand).total, FALSE)
                ELSE NoBjRec]
    /\ bj_pending = [u \in Users |-> FALSE]
    /\ games_played = [u \in Users |-> 0]
    /\ blackjack_boosts = [u \in Users |-> 0]
    /\ RaceIdle
    /\ GameIdle
    /\ VoteIdle
    /\ PlaceIdle
    /\ \E editing \in BOOLEAN :
          /\ conv_state = [submit |-> END, santa |-> END, shop |-> END,
                           tinder |-> IF editing THEN "TINDER_GENDER" ELSE END]
          /\ user_data =
                IF editing
                THEN [load_profile_into_context(EmptyUserData, ProfileRow("Male", "Any", "msk", TRUE, 0))
                         EXCEPT !.tinder_edit_mode = TRUE]
                ELSE EmptyUserData
          /\ flows_entered = IF editing THEN 1 ELSE 0
    /\ tinder_media_rows = <<>>
    /\ secret_santa = NoSanta
    /\ users_row = ensure_user_context(NoUser, 0)
    /\ purchases = <<>>
    /\ user_contacts = NoContact
    /\ flow_last = NoFlowRec

NextWipe ==
    \/ \E u \in Users : WipeProfile(u)
    \/ \E text \in GenderTexts : TinderGenderText(text)

SpecWipe == InitWipe /\ [][NextWipe]_vars

\* ------------------------------------------------------------------------
\* Rating the contest candidates
\* ------------------------------------------------------------------------
Voters == {1, 2}

NumCandidates == 2

Candidates == 1..NumCandidates

Ratings == {1, 10}

\* votes_cast is counted up to here
MaxVotesCast == 3

VoteRow(user_id, candidate_id, rating) ==
    [user_id |-> user_id, candidate_id |-> candidate_id, rating |-> rating]

\* add_vote with the INSERT alone
add_vote_insert(rows, cast, user_id, candidate_id, rating) ==
    [recorded |-> TRUE,
     votes |-> InsertRow(rows, VoteRow(user_id, candidate_id, rating)),
     votes_cast |-> [cast EXCEPT ![user_id] = @ + 1]]

\* db.add_vote: SELECT 1 FROM votes WHERE user_id = ? AND candidate_id = ?; a row
\* found returns False, else INSERT, increment_stat(votes_cast) and True
add_vote(rows, cast, user_id, candidate_id, rating) ==
    IF \E r \in DOMAIN rows : r.user_id = user_id /\ r.candidate_id = candidate_id
    THEN [recorded |-> FALSE, votes |-> rows, votes_cast |-> cast]
    ELSE [recorded |-> TRUE,
          votes |-> InsertRow(rows, VoteRow(user_id, candidate_id, rating)),
          votes_cast |-> [cast EXCEPT ![user_id] = @ + 1]]

\* target_gender_for_voter: None (FALSE here) unless the gender is one of the two
target_gender_for_voter(gender) == gender \in Genders

voteRest == <<datingVars, bjVars, raceVars, flowVars, gameVars, placeVars>>

\* button rate:<candidate>:<rating>: a voter with no gender is asked for it
\* first, otherwise add_vote and the next candidate
Rate(u, cid, rating) ==
    /\ votes_cast[u] < MaxVotesCast
    /\ IF ~target_gender_for_voter(voter_gender[u])
       THEN /\ vote_last' = [op |-> "gender_prompt", user_id |-> u, candidate_id |-> cid,
                             rating |-> rating, recorded |-> FALSE]
            /\ UNCHANGED <<votes, votes_cast>>
       ELSE LET r == add_vote(votes, votes_cast, u, cid, rating)
            IN /\ votes' = r.votes
               /\ votes_cast' = r.votes_cast
               /\ vote_last' = [op |-> "rate", user_id |-> u, candidate_id |-> cid,
                                rating |-> rating, recorded |-> r.recorded]
    /\ UNCHANGED <<voter_gender, voteRest>>

\* button votergender:<gender>: a voter who is no admin keeps the gender they have
VoterGender(u, g) ==
    /\ voter_gender' = IF voter_gender[u] # "" THEN voter_gender
                       ELSE [voter_gender EXCEPT ![u] = g]
    /\ vote_last' = [op |-> "votergender", user_id |-> u, candidate_id |-> 0,
                     rating |-> 0, recorded |-> FALSE]
    /\ UNCHANGED <<votes, votes_cast, voteRest>>

\* reset_votes_cmd <user>: db.reset_votes_for_user deletes the votes and the
\* user_profiles row of the user
ResetVotes(u) ==
    /\ votes' = DeleteWhere(votes, LAMBDA r : r.user_id = u)
    /\ voter_gender' = [voter_gender EXCEPT ![u] = ""]
    /\ vote_last' = [op |-> "reset_votes", user_id |-> u, candidate_id |-> 0,
                     rating |-> 0, recorded |-> FALSE]
    /\ UNCHANGED <<votes_cast, voteRest>>

InitVote ==
    /\ VoteIdle
    /\ PlaceIdle
    /\ DatingIdle
    /\ BjIdle
    /\ RaceIdle
    /\ FlowIdle
    /\ GameIdle

NextVote ==
    \/ \E u \in Voters, cid \in Candidates, rating \in Ratings : Rate(u, cid, rating)
    \/ \E u \in Voters, g \in Genders : VoterGender(u, g)
    \/ \E u \in Voters : ResetVotes(u)

SpecVote == InitVote /\ [][NextVote]_vars

\* ------------------------------------------------------------------------
\* handle_bet_selection, one storage step at a time
\* ------------------------------------------------------------------------
\* adjust_balance: UPDATE user_wallets SET balance = balance + ?
adjust_balance(wallets, user_id, delta) == [wallets EXCEPT ![user_id] = @ + delta]

\* the handle_bet_selection call of a user: where it stands, its argument bet,
\* the deck build_deck returned and the balance it read
Call(pc, bet, n, start) == [pc |-> pc, bet |-> bet, deck |-> n, start |-> start]

\* the hands and the deck after the four draws of the call
Dealt(u) == DealtRow(u, bet_call[u].deck, bet_call[u].bet)

\* the steps of the call leave the rest of the blackjack state alone
placeRest == <<blackjack_boosts, datingVars, raceVars, flowVars, gameVars, voteVars, sub_flow>>

Goto(u, pc) == bet_call' = [bet_call EXCEPT ![u] = [@ EXCEPT !.pc = pc]]

\* handle_bet_selection up to the first write: the balance test, bj_pending
PlaceEnter(u, bet, n) ==
    LET balance == user_wallets[u]
        had == load_blackjack_session(blackjack_sessions, u).exists
        row == DealtRow(u, n, bet)
    IN /\ bet_call[u].pc = "idle"
       /\ IF ~bet_accepted(bet, balance)
          THEN /\ bj_last' = [bj_last EXCEPT ![u] =
                     [@ EXCEPT !.op = "bet", !.accepted = FALSE, !.amount = bet,
                               !.had_session = had]]
               /\ UNCHANGED <<bj_pending, bet_call>>
          ELSE /\ games_played[u] < MaxRounds
               /\ bj_pending' = [bj_pending EXCEPT ![u] = FALSE]
               /\ bet_call' = [bet_call EXCEPT ![u] = Call("stat", bet, n, balance)]
               /\ bj_last' = [bj_last EXCEPT ![u] =
                     BjRec("bet", TRUE, bet, had, balance, bet, "none",
                           hand_value(row.player_hand).total,
                           hand_value(row.dealer_hand).total, FALSE)]
       /\ UNCHANGED <<user_wallets, blackjack_sessions, games_played, placeRest>>

\* db.increment_stat(user_id, "games_played"); the deck and the hands are built
PlaceStat(u) ==
    /\ bet_call[u].pc = "stat"
    /\ games_played' = [games_played EXCEPT ![u] = @ + 1]
    /\ Goto(u, "debit")
    /\ UNCHANGED <<user_wallets, blackjack_sessions, bj_pending, bj_last, placeRest>>

\* db.adjust_balance(user_id, -bet) left out
PlaceDebit_skipped(u) ==
    /\ bet_call[u].pc = "debit"
    /\ Goto(u, "save")
    /\ UNCHANGED <<user_wallets, blackjack_sessions, bj_pending, games_played, bj_last,
                   placeRest>>

\* db.adjust_balance(user_id, -bet)
PlaceDebit(u) ==
    /\ bet_call[u].pc = "debit"
    /\ user_wallets' = adjust_balance(user_wallets, u, -bet_call[u].bet)
    /\ Goto(u, "save")
    /\ UNCHANGED <<blackjack_sessions, bj_pending, games_played, bj_last, placeRest>>

\* db.save_blackjack_session(user_id, deck, player_hand, dealer_hand, bet); then
\* the test for naturals
PlaceSave(u) ==
    LET row == Dealt(u)
        player_bj == is_blackjack(row.player_hand)
        dealer_bj == is_blackjack(row.dealer_hand)
    IN /\ bet_call[u].pc = "save"
       /\ blackjack_sessions' =
             save_blackjack_session(blackjack_sessions, u, row.deck, row.player_hand,
                                    row.dealer_hand, row.bet)
       /\ Goto(u, IF player_bj THEN "credit"
                  ELSE IF dealer_bj THEN "respond" ELSE "show")
       /\ bj_last' = [bj_last EXCEPT ![u] =
             [@ EXCEPT !.result = IF dealer_bj /\ ~player_bj THEN "loss" ELSE @]]
       /\ UNCHANGED <<user_wallets, bj_pending, games_played, placeRest>>

\* a natural of the player: db.adjust_balance(user_id, bet) or (user_id, bet * 2)
PlaceCredit(u) ==
    LET row == Dealt(u)
        nat == natural_payout(is_blackjack(row.player_hand),
                              is_blackjack(row.dealer_hand), row.bet)
    IN /\ bet_call[u].pc = "credit"
       /\ user_wallets' = adjust_balance(user_wallets, u, nat.payout)
       /\ bj_last' = [bj_last EXCEPT ![u] = [@ EXCEPT !.result = nat.result]]
       /\ Goto(u, "respond")
       /\ UNCHANGED <<blackjack_sessions, bj_pending, games_played, placeRest>>

\* a natural: await _respond(...) returns
PlaceRespond(u) ==
    /\ bet_call[u].pc = "respond"
    /\ Goto(u, "clear")
    /\ UNCHANGED <<user_wallets, blackjack_sessions, bj_pending, games_played, bj_last,
                   placeRest>>

\* a natural: db.clear_blackjack_session(user_id); return
PlaceClear(u) ==
    /\ bet_call[u].pc = "clear"
    /\ blackjack_sessions' = clear_blackjack_session(blackjack_sessions, u)
    /\ bet_call' = [bet_call EXCEPT ![u] = NoCall]
    /\ UNCHANGED <<user_wallets, bj_pending, games_played, bj_last, placeRest>>

\* no natural: await send_blackjack_state(...) returns
PlaceShow(u) ==
    /\ bet_call[u].pc = "show"
    /\ bet_call' = [bet_call EXCEPT ![u] = NoCall]
    /\ UNCHANGED <<user_wallets, blackjack_sessions, bj_pending, games_played, bj_last,
                   placeRest>>

\* await _respond(...) or send_blackjack_state(...) raises (the message cannot be
\* sent): the handler ends there and the rest of it does not run
PlaceSendFails(u) ==
    /\ bet_call[u].pc \in {"respond", "show"}
    /\ bet_call' = [bet_call EXCEPT ![u] = NoCall]
    /\ UNCHANGED <<user_wallets, blackjack_sessions, bj_pending, games_played, bj_last,
                   placeRest>>

\* the balance up to which a failing send is followed
MaxBalance == 40

\* blackjack_stand whose result message cannot be sent: resolve_blackjack_outcome
\* has credited the payout when await _respond(...) raises, and the
\* db.clear_blackjack_session(user_id) after it does not run. (blackjack_double
\* clears the session before it calls resolve_blackjack_outcome, so there a
\* failed send leaves what BlackjackDouble leaves.)
StandSendFails(u) ==
    /\ user_wallets[u] < MaxBalance
    /\ load_blackjack_session(blackjack_sessions, u).exists
    /\ BlackjackStand_keepsession(u)

\* updates of a user are handled one at a time
Idle(u) == bet_call[u].pc = "idle"

InitPlace == InitBJ

NextPlace ==
    \/ \E u \in Players, bet \in BetAmounts, n \in DOMAIN Decks : PlaceEnter(u, bet, n)
    \/ \E u \in Players : PlaceStat(u)
    \/ \E u \in Players : PlaceDebit(u)
    \/ \E u \in Players : PlaceSave(u)
    \/ \E u \in Players : PlaceCredit(u)
    \/ \E u \in Players : PlaceRespond(u)
    \/ \E u \in Players : PlaceClear(u)
    \/ \E u \in Players : PlaceShow(u)
    \/ \E u \in Players : PlaceSendFails(u)
    \/ \E u \in Players : Idle(u) /\ BlackjackHit(u)
    \/ \E u \in Players : Idle(u) /\ BlackjackStand(u)
    \/ \E u \in Players : Idle(u) /\ BlackjackDouble(u)

SpecPlace == InitPlace /\ [][NextPlace]_vars

\* the same calls, where the result message of a stand may fail to be sent
NextSend ==
    \/ NextPlace
    \/ \E u \in Players : Idle(u) /\ StandSendFails(u)

SpecSend == InitPlace /\ [][NextSend]_vars

\* ------------------------------------------------------------------------
\* One round from a fresh deck, dealer_play one loop iteration at a time
\* ------------------------------------------------------------------------
\* the decks of the round: the shuffles, the deck in build order (the kings are
\* drawn first) and its reverse (the aces and the low cards are drawn first)
RoundDecks == {Decks[n] : n \in DOMAIN Decks} \cup {OrderedDeck, Reverse(OrderedDeck)}

\* what handle_bet_selection(bet) stores when build_deck returns deck
DealtFrom(u, deck, bet) ==
    LET d1 == draw_card(deck)
        d2 == draw_card(d1.deck)
        d3 == draw_card(d2.deck)
        d4 == draw_card(d3.deck)
    IN SessionRow(u, d4.deck, <<d1.card, d2.card>>, <<d3.card, d4.card>>, bet)

\* the dealer_play call in progress: who called it
Running(caller) == [op |-> "running", caller |-> caller]

\* blackjack_hit
RoundHit(u) ==
    /\ game_ret.op = "none"
    /\ BlackjackHit(u)

\* blackjack_stand up to the call game.dealer_play(session["dealer_hand"], deck)
StandCall(u) ==
    LET session == load_blackjack_session(blackjack_sessions, u) IN
    /\ game_ret.op = "none"
    /\ session.exists
    /\ arg_hand' = session.dealer_hand
    /\ arg_deck' = session.deck
    /\ game_ret' = Running("stand")
    /\ UNCHANGED <<datingVars, bjVars, raceVars, flowVars, voteVars, placeVars>>

\* blackjack_double up to the call game.dealer_play(dealer_hand, deck): the
\* player's card is drawn and does not bust the hand
DoubleCall(u) ==
    LET session == load_blackjack_session(blackjack_sessions, u) IN
    /\ game_ret.op = "none"
    /\ session.exists
    /\ Len(session.player_hand) = 2
    /\ user_wallets[u] >= session.bet
    /\ IF session.deck = <<>>
       THEN /\ game_ret' = [op |-> "raised", caller |-> "double"]
            /\ UNCHANGED <<arg_hand, arg_deck>>
       ELSE LET d == draw_card(session.deck) IN
            /\ hand_value(Append(session.player_hand, d.card)).total <= 21
            /\ arg_hand' = session.dealer_hand
            /\ arg_deck' = d.deck
            /\ game_ret' = Running("double")
    /\ UNCHANGED <<datingVars, bjVars, raceVars, flowVars, voteVars, placeVars>>

\* blackjack_double, the player's card busts the hand: dealer_play is not called
DoubleBust(u) ==
    LET session == load_blackjack_session(blackjack_sessions, u) IN
    /\ game_ret.op = "none"
    /\ session.exists
    /\ session.deck # <<>>
    /\ hand_value(Append(session.player_hand, draw_card(session.deck).card)).total > 21
    /\ BlackjackDouble(u)

\* an iteration of dealer_play that draws whatever the total is
DealerLoop_nostop ==
    /\ game_ret.op = "running"
    /\ IF arg_deck = <<>>
       THEN /\ game_ret' = [game_ret EXCEPT !.op = "raised"]
            /\ UNCHANGED <<arg_hand, arg_deck>>
       ELSE /\ arg_hand' = Append(arg_hand, draw_card(arg_deck).card)
            /\ arg_deck' = draw_card(arg_deck).deck
            /\ UNCHANGED game_ret
    /\ UNCHANGED <<datingVars, bjVars, raceVars, flowVars, voteVars, placeVars>>

\* an iteration of the loop of dealer_play: hand.append(draw_card(deck)) and
\* continue, or break; deck.pop() on an empty list raises IndexError
DealerLoop ==
    LET v == hand_value(arg_hand) IN
    /\ game_ret.op = "running"
    /\ IF v.total < 17 \/ (v.total = 17 /\ v.is_soft)
       THEN IF arg_deck = <<>>
            THEN /\ game_ret' = [game_ret EXCEPT !.op = "raised"]
                 /\ UNCHANGED <<arg_hand, arg_deck>>
            ELSE /\ arg_hand' = Append(arg_hand, draw_card(arg_deck).card)
                 /\ arg_deck' = draw_card(arg_deck).deck
                 /\ UNCHANGED game_ret
       ELSE /\ game_ret' = [game_ret EXCEPT !.op = "returned"]
            /\ UNCHANGED <<arg_hand, arg_deck>>
    /\ UNCHANGED <<datingVars, bjVars, raceVars, flowVars, voteVars, placeVars>>

\* blackjack_stand after dealer_play has returned: resolve_blackjack_outcome
StandReturn(u) ==
    /\ game_ret = [op |-> "returned", caller |-> "stand"]
    /\ load_blackjack_session(blackjack_sessions, u).exists
    /\ BlackjackStand(u)

\* blackjack_double after dealer_play has returned
DoubleReturn(u) ==
    /\ game_ret = [op |-> "returned", caller |-> "double"]
    /\ load_blackjack_session(blackjack_sessions, u).exists
    /\ BlackjackDouble(u)

\* player 1 has bet 10 and holds the deal of a fresh deck that has no natural
InitRound ==
    /\ \E deck \in RoundDecks :
          LET row == DealtFrom(1, deck, 10) IN
          /\ ~is_blackjack(row.player_hand) /\ ~is_blackjack(row.dealer_hand)
          /\ blackjack_sessions = {row}
          /\ bj_last = [u \in Users |->
                IF u = 1
                THEN BjRec("bet", TRUE, 10, FALSE, InitialBalance, 10, "none",
                           hand_value(row.player_hand).total,
                           hand_value(row.dealer_hand).total, FALSE)
                ELSE NoBjRec]
    /\ user_wallets = [u \in Users |-> IF u = 1 THEN InitialBalance - 10 ELSE InitialBalance]
    /\ bj_pending = [u \in Users |-> FALSE]
    /\ games_played = [u \in Users |-> IF u = 1 THEN 1 ELSE 0]
    /\ blackjack_boosts = [u \in Users |-> 0]
    /\ DatingIdle
    /\ RaceIdle
    /\ FlowIdle
    /\ VoteIdle
    /\ GameIdle
    /\ PlaceIdle

NextRound ==
    \/ \E u \in Players : RoundHit(u)
    \/ \E u \in Players : StandCall(u)
    \/ \E u \in Players : DoubleCall(u)
    \/ \E u \in Players : DoubleBust(u)
    \/ DealerLoop
    \/ \E u \in Players : StandReturn(u)
    \/ \E u \in Players : DoubleReturn(u)

\* dealer_play is straight-line code: once called, its loop keeps running
SpecRound == InitRound /\ [][NextRound]_vars /\ WF_vars(DealerLoop)

\* ------------------------------------------------------------------------
\* Properties
\* ------------------------------------------------------------------------
HasLike(a, b) ==
    \E r \in DOMAIN tinder_swipes : r.user_id = a /\ r.target_id = b /\ r.status = "like"

MatchRowsOf(a, b) ==
    {r \in DOMAIN tinder_matches : {r.user_a, r.user_b} = {a, b}}

RECURSIVE SumCopies(_, _)
SumCopies(t, rows) ==
    IF rows = {} THEN 0
    ELSE LET r == CHOOSE x \in rows : TRUE IN t[r] + SumCopies(t, rows \ {r})

MatchCount(a, b) == SumCopies(tinder_matches, MatchRowsOf(a, b))

\* what a resolved round must have changed the balance by, from the totals
ExpectedDelta(r) ==
    IF r.pt > 21 THEN 0 - r.bet
    ELSE IF r.forced \/ r.dt > 21 \/ r.pt > r.dt THEN r.bet
    ELSE IF r.dt > r.pt THEN 0 - r.bet
    ELSE 0

DeltaOf(r) ==
    CASE r.result = "win" -> r.bet
      [] r.result = "push" -> 0
      [] r.result \in {"loss", "bust"} -> 0 - r.bet

C2_MatchIffMutualLike ==
    \A a \in Users, b \in Users :
        a # b => ((MatchRowsOf(a, b) # {}) <=> (HasLike(a, b) /\ HasLike(b, a)))

\* a match exists beside a one-sided like of a third pair
C2_Witness ==
    \E a \in Users, b \in Users, c \in Users :
        /\ a # b /\ c \notin {a, b}
        /\ MatchRowsOf(a, b) # {}
        /\ HasLike(c, a) /\ ~HasLike(a, c)

\* C3: redundant match checks leave exactly one Match row per pair, stored as
\* (smaller id, larger id).
C3_OneMatchRow ==
    \A a \in Users, b \in Users :
        /\ MatchCount(a, b) <= 1
        /\ \A r \in MatchRowsOf(a, b) : r.user_a < r.user_b

\* C4: a like's match check returns true exactly when the target's like of the
\* actor is stored, and a Match row for the pair exists exactly then; a dislike
\* from the other side never makes it true.
C4_MatchCheckResult ==
    ret.op = "like" =>
        /\ ret.matched <=> HasLike(ret.target_id, ret.user_id)
        /\ ret.matched <=> (MatchRowsOf(ret.user_id, ret.target_id) # {})

\* the second of two opposite likes has matched
C4_Witness ==
    /\ ret.op = "like" /\ ret.matched
    /\ MatchCount(ret.user_id, ret.target_id) = 1
    /\ \E c \in Users : has_swiped(tinder_swipes, c, ret.user_id) /\ ~HasLike(c, ret.user_id)

\* C7: a bet submitted while a round is active is not accepted.
C7_NoBetWhileActive ==
    \A u \in Users :
        ~(bj_last[u].op = "bet" /\ bj_last[u].accepted /\ bj_last[u].had_session)

\* C8: an accepted bet satisfies 0 < amount <= balance.
C8_BetValidated ==
    \A u \in Users :
        (bj_last[u].op = "bet" /\ bj_last[u].accepted) =>
            (0 < bj_last[u].amount /\ bj_last[u].amount <= bj_last[u].start)

\* a profile the actor may be shown: active, not the actor, unswiped by the
\* actor, gender- and interest-compatible
Eligible(actor, p) ==
    /\ tinder_profiles[p].exists
    /\ tinder_profiles[p].active
    /\ p # actor
    /\ ~\E r \in DOMAIN tinder_swipes : r.user_id = actor /\ r.target_id = p
    /\ (tinder_profiles[actor].interest = "Any"
          \/ tinder_profiles[p].gender = tinder_profiles[actor].interest)
    /\ (tinder_profiles[p].interest = "Any"
          \/ tinder_profiles[p].interest = tinder_profiles[actor].gender)

Local(actor, p) ==
    tinder_profiles[p].normalized_city = tinder_profiles[actor].normalized_city

MostRecentIn(p, S) ==
    p \in S /\ \A q \in S : tinder_profiles[q].updated_at <= tinder_profiles[p].updated_at

\* C9: a profile returned by get_next_candidate is eligible, and it is the most
\* recently updated of the eligible profiles (fallback query) or of the eligible
\* profiles of the actor's locality (locality-scoped query).
C9_CandidateEligibleAndMostRecent ==
    (ret.op = "next_candidate" /\ ret.target_id # None) =>
        LET a == ret.user_id
            t == ret.target_id
            all == {p \in Users : Eligible(a, p)}
            loc == {p \in all : Local(a, p)}
        IN /\ Eligible(a, t)
           /\ \/ MostRecentIn(t, all)
              \/ tinder_profiles[a].normalized_city # "" /\ MostRecentIn(t, loc)

\* a candidate was returned while another profile, swiped before, is more recent
C9_Witness ==
    /\ ret.op = "next_candidate" /\ ret.target_id # None
    /\ \E q \in Users :
          /\ q \notin {ret.user_id, ret.target_id}
          /\ has_swiped(tinder_swipes, ret.user_id, q)
          /\ tinder_profiles[q].exists /\ tinder_profiles[q].active
          /\ tinder_profiles[q].updated_at > tinder_profiles[ret.target_id].updated_at

\* C10: with a non-empty locality and an eligible profile in it, the profile
\* returned is from the actor's locality.
C10_LocalityPreferred ==
    ret.op = "next_candidate" =>
        LET a == ret.user_id IN
        (/\ tinder_profiles[a].exists
         /\ tinder_profiles[a].normalized_city # ""
         /\ \E p \in Users : Eligible(a, p) /\ Local(a, p))
        => (ret.target_id # None /\ Local(a, ret.target_id))

RejectionReplies(handler) ==
    CASE handler \in {"tinder_age", "submit_age"} -> {"age_not_number", "age_invalid"}
      [] handler \in {"tinder_gender_text", "submit_gender_text"} -> {"gender_invalid_choice"}
      [] handler = "tinder_media_text" -> {"tinder_media_prompt", "tinder_media_more"}
      [] handler = "tinder_media" -> {"not_photo", "limit_reached"}
      [] handler = "submit_name" -> {"name_need_last"}
      [] handler = "santa_name_step" -> {"santa_name_prompt"}
      [] handler = "santa_insta_step" -> {"santa_gift_prompt"}
      [] handler = "shop_recipient_text" -> {"shop_recipient_invalid"}
      [] OTHER -> {}

Rejected(r) == r.reply \in RejectionReplies(r.handler)

\* what a rejected input must leave alone: the cursor, the draft and the tables
\* the flows fill
RejectedLeavesFlowData ==
    /\ conv_state' = conv_state
    /\ user_data' = user_data
    /\ UNCHANGED <<tinder_profiles, tinder_media_rows, secret_santa, user_wallets,
                   tinder_swipes, tinder_matches>>

C11_NoneIffNoEligible ==
    (ret.op = "next_candidate" /\ tinder_profiles[ret.user_id].exists) =>
        LET a == ret.user_id
            all == {p \in Users : Eligible(a, p)}
            loc == {p \in all : Local(a, p)}
        IN /\ (ret.target_id = None) <=> (all = {})
           /\ (loc = {} /\ Cardinality(all) = 1) => ret.target_id \in all
           /\ ret.target_id # None => Eligible(a, ret.target_id)

\* the only eligible profile is outside the actor's locality, and is returned
C11_Witness ==
    /\ ret.op = "next_candidate" /\ ret.target_id # None
    /\ tinder_profiles[ret.user_id].normalized_city # ""
    /\ ~Local(ret.user_id, ret.target_id)
    /\ {p \in Users : Eligible(ret.user_id, p)} = {ret.target_id}

\* the points of a rank with every ace counted as 11
HighPoints(rank) ==
    IF rank \in {"J", "Q", "K"} THEN 10 ELSE IF rank = "A" THEN 11 ELSE IntOf(rank)

RECURSIVE HighTotalUpTo(_, _)
HighTotalUpTo(hand, n) ==
    IF n = 0 THEN 0 ELSE HighTotalUpTo(hand, n - 1) + HighPoints(RankOf(hand[n]))

NumAces(hand) == Cardinality({i \in DOMAIN hand : RankOf(hand[i]) = "A"})

\* aces demoted one at a time while the total exceeds 21: the fewest
\* demotions that bring the total to 21 or less, all the aces if none does
Demotions(hand) ==
    LET high == HighTotalUpTo(hand, Len(hand))
        enough == {k \in 0..NumAces(hand) : high - 10 * k <= 21}
    IN IF enough = {} THEN NumAces(hand)
       ELSE CHOOSE k \in enough : \A m \in enough : k <= m

RanksOf(hand) == [i \in DOMAIN hand |-> RankOf(hand[i])]

\* C12: hand_value returns the total with faces as 10 and aces as 11, less 10
\* for each ace demoted while the total exceeds 21; soft is true exactly when an
\* ace is still counted as 11; the value of the cards in any other order is the
\* same; [A,A,9] gives (21, true) and [A,A,K] gives (12, false).
C12_HandValue ==
    game_ret.op = "hand_value" =>
        /\ game_ret.total = HighTotalUpTo(arg_hand, Len(arg_hand)) - 10 * Demotions(arg_hand)
        /\ game_ret.is_soft = (Demotions(arg_hand) < NumAces(arg_hand))
        /\ hand_value(arg_hand) = [total |-> game_ret.total, is_soft |-> game_ret.is_soft]
        /\ RanksOf(arg_hand) \in {<<"A", "A", "9">>, <<"A", "9", "A">>, <<"9", "A", "A">>}
              => (game_ret.total = 21 /\ game_ret.is_soft)
        /\ RanksOf(arg_hand) \in {<<"A", "A", "K">>, <<"A", "K", "A">>, <<"K", "A", "A">>}
              => (game_ret.total = 12 /\ ~game_ret.is_soft)

\* [A,A,K] was valued and then held in the order [K,A,A]
C12_Witness ==
    /\ game_ret.op = "hand_value"
    /\ game_ret.total = 12 /\ ~game_ret.is_soft
    /\ RanksOf(arg_hand) = <<"K", "A", "A">>

\* the dealer draws on less than 17 and on a soft 17
MustDraw(hand) ==
    hand_value(hand).total < 17 \/ (hand_value(hand).total = 17 /\ hand_value(hand).is_soft)

\* the hand after j draws from the top of the deck
AfterDraws(hand, deck, j) ==
    hand \o [i \in 1..j |-> deck[Len(deck) + 1 - i]]

\* C13: dealer_play draws no card on a hard 17 or on 18 or more, draws one card
\* at a time while the hand is a soft 17 or totals less than 17, and returns a
\* hand of at least 17 that is not a soft 17; each card added is the card taken
\* from the top of the deck at that draw.
C13_DealerPolicy ==
    game_ret.op = "dealer_play" =>
        LET k == Len(game_ret.hand) - Len(arg_hand) IN
        /\ k \in 0..Len(arg_deck)
        /\ game_ret.hand = AfterDraws(arg_hand, arg_deck, k)
        /\ game_ret.deck = SubSeq(arg_deck, 1, Len(arg_deck) - k)
        /\ \A j \in 0..(k - 1) : MustDraw(AfterDraws(arg_hand, arg_deck, j))
        /\ ~MustDraw(game_ret.hand)
        /\ hand_value(game_ret.hand).total >= 17
        /\ (k = 0) <=> ~MustDraw(arg_hand)

\* a dealer holding a soft 17 drew a card and stopped on a hard 17
C13_Witness ==
    /\ game_ret.op = "dealer_play"
    /\ hand_value(arg_hand) = [total |-> 17, is_soft |-> TRUE]
    /\ Len(game_ret.hand) = 3
    /\ hand_value(game_ret.hand) = [total |-> 17, is_soft |-> FALSE]

StandStep(u) ==
    /\ load_blackjack_session(blackjack_sessions, u).exists
    /\ bj_last'[u].op = "stand" /\ bj_last'[u].accepted

\* C15: on stand with boost 0, after the dealer has played, the wallet is
\* credited twice the bet if the dealer total exceeds 21 or the player total
\* exceeds the dealer total, the bet if the totals are equal, and nothing if the
\* dealer total (at most 21) exceeds the player total; exactly one case applies.
C15_StandPayout ==
    [][\A u \in Players :
         (StandStep(u) /\ blackjack_boosts[u] = 0) =>
            LET s == load_blackjack_session(blackjack_sessions, u)
                pt == hand_value(s.player_hand).total
                dt == hand_value(dealer_play(s.dealer_hand, s.deck).hand).total
                credit == user_wallets'[u] - user_wallets[u]
                win == dt > 21 \/ pt > dt
                tie == dt = pt
                lose == dt <= 21 /\ dt > pt
            IN /\ win => credit = 2 * s.bet
               /\ tie => credit = s.bet
               /\ lose => credit = 0
               /\ Cardinality({c \in {"win", "tie", "lose"} :
                                 \/ c = "win" /\ win
                                 \/ c = "tie" /\ tie
                                 \/ c = "lose" /\ lose}) = 1]_vars

\* a stand with boost 0 on a positive bet ended in a push
C15_Witness ==
    \E u \in Players :
        /\ bj_last[u].op = "stand" /\ bj_last[u].accepted
        /\ blackjack_boosts[u] = 0
        /\ bj_last[u].bet > 0
        /\ bj_last[u].result = "push" /\ bj_last[u].pt = bj_last[u].dt

\* the step is a double request of u that was answered
DoubleStep(u) ==
    bj_last'[u].op = "double" /\ bj_last'[u] # bj_last[u]

\* C16: a double is accepted only when a session is stored, the player's hand
\* has exactly two cards and the balance is at least the bet; a rejected double
\* leaves the wallet, the stored session and the round state unchanged.
C16_DoubleGuard ==
    [][\A u \in Players :
         DoubleStep(u) =>
            LET s == load_blackjack_session(blackjack_sessions, u)
                allowed == /\ s.exists
                           /\ Len(s.player_hand) = 2
                           /\ user_wallets[u] >= s.bet
            IN /\ bj_last'[u].accepted <=> allowed
               /\ ~allowed => UNCHANGED <<user_wallets, blackjack_sessions, bj_pending,
                                          games_played>>]_vars

\* a double on the first two cards was turned down for lack of points
C16_Witness ==
    \E u \in Players :
        /\ bj_last[u].op = "double" /\ ~bj_last[u].accepted
        /\ load_blackjack_session(blackjack_sessions, u).exists
        /\ Len(load_blackjack_session(blackjack_sessions, u).player_hand) = 2
        /\ user_wallets[u] < load_blackjack_session(blackjack_sessions, u).bet

\* C17: an accepted double ends the round: it debits one further amount equal
\* to the original bet, adds one card from the top of the deck to the player's
\* two, and resolves on the doubled bet -- nothing credited on bust or dealer
\* win, twice the original bet on push, four times the original bet on player
\* win or dealer bust (a bust forced by the boost included) -- and no session
\* remains.
C17_DoubleResolves ==
    [][\A u \in Players :
         (DoubleStep(u) /\ bj_last'[u].accepted) =>
            LET s == load_blackjack_session(blackjack_sessions, u)
                orig == s.bet
                hand3 == Append(s.player_hand, s.deck[Len(s.deck)])
                pt == hand_value(hand3).total
                dt == hand_value(dealer_play(s.dealer_hand,
                                             SubSeq(s.deck, 1, Len(s.deck) - 1)).hand).total
                forced == bj_last'[u].forced
                credit == user_wallets'[u] - (user_wallets[u] - orig)
            IN /\ Len(hand3) = 3
               /\ bj_last'[u].pt = pt
               /\ bj_last'[u].bet = 2 * orig
               /\ ~load_blackjack_session(blackjack_sessions', u).exists
               /\ pt > 21 => (credit = 0 /\ bj_last'[u].result = "bust")
               /\ pt <= 21 =>
                    /\ bj_last'[u].dt = dt
                    /\ forced => (blackjack_boosts[u] > 0 /\ dt >= pt /\ dt <= 21)
                    /\ (forced \/ dt > 21 \/ pt > dt) => credit = 4 * orig
                    /\ (~forced /\ dt = pt) => credit = 2 * orig
                    /\ (~forced /\ dt <= 21 /\ dt > pt) => credit = 0]_vars

\* a double on a positive bet was won without a forced bust
C17_Witness ==
    \E u \in Players :
        /\ bj_last[u].op = "double" /\ bj_last[u].accepted
        /\ bj_last[u].bet > 0 /\ bj_last[u].result = "win" /\ ~bj_last[u].forced
        /\ ~load_blackjack_session(blackjack_sessions, u).exists

\* the step is an accepted hit of u
HitStep(u) ==
    /\ bj_last'[u].op = "hit" /\ bj_last'[u].accepted
    /\ load_blackjack_session(blackjack_sessions', u) # load_blackjack_session(blackjack_sessions, u)

\* C18: a hit on an active round moves the top card of the stored deck to the
\* player's hand and stores the deck and the hand; if the new total exceeds 21
\* the session is deleted, otherwise the round stays active with the same bet
\* and the same dealer hand.
C18_HitMovesOneCard ==
    [][\A u \in Players :
         HitStep(u) =>
            LET s == load_blackjack_session(blackjack_sessions, u)
                s2 == load_blackjack_session(blackjack_sessions', u)
                hand == Append(s.player_hand, s.deck[Len(s.deck)])
            IN /\ s.exists
               /\ user_wallets'[u] = user_wallets[u]
               /\ IF hand_value(hand).total > 21
                  THEN ~s2.exists /\ bj_last'[u].result = "bust"
                  ELSE /\ s2.exists
                       /\ s2.player_hand = hand
                       /\ s2.deck = SubSeq(s.deck, 1, Len(s.deck) - 1)
                       /\ s2.bet = s.bet
                       /\ s2.dealer_hand = s.dealer_hand]_vars

\* a hit left the round active with three cards in the player's hand
C18_Witness ==
    \E u \in Players :
        /\ bj_last[u].op = "hit" /\ bj_last[u].accepted
        /\ load_blackjack_session(blackjack_sessions, u).exists
        /\ Len(load_blackjack_session(blackjack_sessions, u).player_hand) = 3

\* the round of u has been resolved and no bet has been accepted since
Resolved(u) == bj_last[u].result # "none"

\* the step is a hit, stand or double of u sent while no session is stored
LateActionStep(u) ==
    /\ ~load_blackjack_session(blackjack_sessions, u).exists
    /\ bj_last'[u].op \in {"hit", "stand", "double"}
    /\ bj_last'[u] # bj_last[u]

SessionRowsOf(sessions, u) == {r \in sessions : r.user_id = u}

\* C20: each user has at most one stored session row -- a save for a user who
\* has a row replaces it -- and a step that changes one user's row leaves every
\* other user's row alone; the row a hit stores keeps the dealer hand and the
\* bet of the same user's row.
C20_OneSessionPerUser ==
    /\ [](\A u \in Users : Cardinality(SessionRowsOf(blackjack_sessions, u)) <= 1)
    /\ [][\A u \in TablePlayers :
            SessionRowsOf(blackjack_sessions', u) # SessionRowsOf(blackjack_sessions, u) =>
               /\ bj_last'[u].op \in {"bet", "hit", "stand", "double"}
               /\ bj_last'[u].accepted
               /\ \A v \in Users \ {u} :
                     SessionRowsOf(blackjack_sessions', v) = SessionRowsOf(blackjack_sessions, v)
               /\ (bj_last'[u].op = "hit" /\ SessionRowsOf(blackjack_sessions', u) # {}) =>
                     \A r \in SessionRowsOf(blackjack_sessions, u),
                        r2 \in SessionRowsOf(blackjack_sessions', u) :
                           r2.dealer_hand = r.dealer_hand /\ r2.bet = r.bet]_vars

\* a bet placed over a round in progress has replaced the row, while the
\* other player's round is in progress
C20_Witness ==
    \E u \in TablePlayers, v \in TablePlayers :
        /\ u # v
        /\ bj_last[u].op = "bet" /\ bj_last[u].accepted /\ bj_last[u].had_session
        /\ Cardinality(SessionRowsOf(blackjack_sessions, u)) = 1
        /\ Cardinality(SessionRowsOf(blackjack_sessions, v)) = 1

\* the round as resolve_blackjack_outcome sees it when the step is an accepted
\* stand or double of u: the bet resolved on, the totals and what was credited
ResolutionOf(u) ==
    LET s == load_blackjack_session(blackjack_sessions, u) IN
    IF bj_last'[u].op = "stand"
    THEN [bet |-> s.bet,
          pt |-> hand_value(s.player_hand).total,
          dt |-> hand_value(dealer_play(s.dealer_hand, s.deck).hand).total,
          credit |-> user_wallets'[u] - user_wallets[u]]
    ELSE [bet |-> 2 * s.bet,
          pt |-> hand_value(Append(s.player_hand, s.deck[Len(s.deck)])).total,
          dt |-> hand_value(dealer_play(s.dealer_hand,
                                        SubSeq(s.deck, 1, Len(s.deck) - 1)).hand).total,
          credit |-> user_wallets'[u] - (user_wallets[u] - s.bet)]

\* the step is an accepted stand or double of u
ResolutionStep(u) ==
    /\ load_blackjack_session(blackjack_sessions, u).exists
    /\ bj_last'[u].op \in {"stand", "double"} /\ bj_last'[u].accepted

\* C21: a forced dealer bust occurs only at stand or double resolution, only
\* with a boost above 0, a player total of at most 21 and a dealer total of at
\* most 21 that is at least the player total; it pays twice the bet; the boost
\* does not change a round the player has busted or already wins, and never
\* lowers a payout.
C21_ForcedBustOnlyFlipsDealerWins ==
    [][\A u \in Players :
         /\ (bj_last'[u].forced /\ ~bj_last[u].forced) => ResolutionStep(u)
         /\ ResolutionStep(u) =>
               LET r == ResolutionOf(u)
                   plain == resolve_blackjack_outcome(r.pt, r.dt, FALSE, r.bet).payout
               IN /\ bj_last'[u].forced =>
                        /\ blackjack_boosts[u] > 0
                        /\ r.pt <= 21 /\ r.dt <= 21 /\ r.dt >= r.pt
                        /\ r.credit = 2 * r.bet
                  /\ (r.pt > 21 \/ r.dt > 21 \/ r.pt > r.dt) =>
                        (~bj_last'[u].forced /\ r.credit = plain)
                  /\ blackjack_boosts[u] = 0 => (~bj_last'[u].forced /\ r.credit = plain)
                  /\ r.credit >= plain]_vars

\* a stand the dealer would have won was turned into a dealer bust
C21_Witness ==
    \E u \in Players :
        /\ bj_last[u].op = "stand" /\ bj_last[u].accepted /\ bj_last[u].forced
        /\ bj_last[u].dt > bj_last[u].pt /\ bj_last[u].dt <= 21
        /\ bj_last[u].bet > 0 /\ bj_last[u].result = "win"

SwipeRowsOf(a, b) ==
    {r \in DOMAIN tinder_swipes : r.user_id = a /\ r.target_id = b}

SwipeCount(a, b) == SumCopies(tinder_swipes, SwipeRowsOf(a, b))

\* C26: with swipe actions handled one at a time, no two SwipeDecision rows
\* with the same (actor, target) exist, also when the candidate queue is empty
\* after a swipe or the next card cannot be shown.
C26_OneSwipePerPair ==
    \A a \in Users, b \in Users : SwipeCount(a, b) <= 1

\* the records of the flow user that the guided flows persist, and the balance
FlowRecords ==
    <<tinder_profiles[FlowUser], tinder_media_rows, secret_santa, purchases,
      user_wallets[FlowUser]>>

\* the step is a finalisation of its flow (the profile save, the gift photo, a
\* shop_finalize that went through), an edit of a saved profile, or no step of a
\* flow at all
FinalisesOrEdits ==
    \/ flow_last'.handler \in {"tinder_save_cb", "give_points_cmd"}
    \/ user_data.tinder_edit_mode
    \/ flow_last'.reply \in {"santa_details_updated", "santa_assigned", "shop_done",
                             "shop_fill_saved", "shop_gift_notified_sender",
                             "shop_gift_pending_sender"}

\* the draft of the cancelled flow is empty: nothing of the gift draw for
\* santa_cancel, nothing at all for submit_cancel
DraftEmptied(ud, santa) ==
    IF santa THEN ud = clear_santa_state(ud) ELSE ud = EmptyUserData

\* C22: an explicit cancel at any step of a guided flow ends the conversation,
\* empties the flow's draft and leaves the profile, media, gift-draw and purchase
\* records and the balance as they were when the flow was entered: the cancel
\* step changes none of them, and neither does any step from the entry of the
\* flow up to its finalisation.
C22_CancelDiscardsEverything ==
    [][/\ flow_last'.handler = "cancel" =>
            /\ \A c \in DOMAIN conv_state : conv_state'[c] = END
            /\ DraftEmptied(user_data', conv_state.santa # END)
            /\ FlowRecords' = FlowRecords
       /\ ~FinalisesOrEdits => FlowRecords' = FlowRecords]_vars

\* the handlers of the six steps that the edit menu opens for one field
EditStepHandlers ==
    {"tinder_age", "tinder_gender_text", "tinder_interest_text", "tinder_city",
     "tinder_name", "tinder_bio"}

\* the stored row holds the value the step of handler h has just put in the draft
FieldStored(h, profile, ud) ==
    /\ profile.exists
    /\ CASE h = "tinder_age" -> profile.age = ud.tinder_age
         [] h = "tinder_gender_text" -> profile.gender = ud.tinder_gender
         [] h = "tinder_interest_text" -> profile.interest = ud.tinder_interest
         [] h = "tinder_city" -> profile.city = ud.tinder_city
         [] h = "tinder_name" -> profile.name = ud.tinder_name
         [] h = "tinder_bio" -> profile.bio = ud.tinder_bio

\* C23: in edit-single-field mode, a valid value sent at the step of age, gender,
\* interest, city, name or bio is stored in the profile row and the conversation
\* ends at the edit menu, with no other field asked for.
C23_EditOneFieldReturnsToMenu ==
    [][(/\ user_data.tinder_edit_mode
        /\ conv_state.tinder # END
        /\ flow_last'.handler \in EditStepHandlers
        /\ ~Rejected(flow_last'))
       => /\ conv_state'.tinder = END
          /\ FieldStored(flow_last'.handler, tinder_profiles'[FlowUser], user_data')]_vars

\* no field of the profile flow is left in the draft
TinderDraftEmpty(ud) ==
    /\ ud.tinder_age = 0
    /\ ud.tinder_gender = ""
    /\ ud.tinder_interest = ""
    /\ Len(ud.tinder_city) = 0
    /\ ud.tinder_normalized_city = ""
    /\ Len(ud.tinder_name) = 0
    /\ Len(ud.tinder_bio) = 0
    /\ Len(ud.tinder_media) = 0
    /\ ~ud.tinder_edit_mode

\* no field of the shop checkout is left in the draft
ShopDraftEmpty(ud) ==
    /\ ud.shop_item = ""
    /\ ud.shop_recipient_id = 0
    /\ Len(ud.shop_recipient_username) = 0
    /\ ~ud.shop_skip_details
    /\ ~ud.shop_contact.set
    /\ ud.shop_purchase_id = 0

\* the replies of a shop_finalize that has stored the purchase
ShopFinalReplies ==
    {"shop_done", "shop_fill_saved", "shop_gift_notified_sender", "shop_gift_pending_sender"}

\* C24: once the terminal step of a flow has persisted its record (the profile
\* saved, the gift-draw entry stored, the checkout finalised) no field that the
\* flow collected, flags and the stored purchase id included, is left in the
\* user's transient state.
C24_TerminalStepClearsDraft ==
    /\ flow_last.handler = "tinder_save_cb" => TinderDraftEmpty(user_data)
    /\ flow_last.reply \in {"santa_details_updated", "santa_assigned"}
          => user_data = clear_santa_state(user_data)
    /\ flow_last.reply \in ShopFinalReplies => ShopDraftEmpty(user_data)

\* the draft holds an accepted value for every step of the profile sequence
DraftComplete(ud) ==
    /\ ud.tinder_age >= 18 /\ ud.tinder_age <= 120
    /\ ud.tinder_gender \in {"Male", "Female"}
    /\ ud.tinder_interest \in {"Male", "Female", "Any"}
    /\ Len(ud.tinder_city) > 0
    /\ Len(ud.tinder_name) > 0
    /\ Len(ud.tinder_bio) > 0
    /\ Len(ud.tinder_media) >= 1

\* C25: for a user with no profile, the row is written only by the save action
\* of the profile flow, and only from a draft that holds an accepted age, gender,
\* interest, city, name and bio and at least one media item.
C25_ProfileSavedOnlyComplete ==
    [][(~tinder_profiles[FlowUser].exists /\ tinder_profiles'[FlowUser].exists)
       => /\ flow_last'.handler = "tinder_save_cb"
          /\ DraftComplete(user_data)]_vars

\* C27: whenever a profile is created or the city of a profile changes, the
\* stored normalized-city key is the normalization of the stored city text, the
\* empty key included; the previous key never stays in place.
C27_CityKeyRecomputed ==
    [][LET old == tinder_profiles[FlowUser]
           new == tinder_profiles'[FlowUser]
       IN (new.exists /\ (~old.exists \/ new.city # old.city))
             => new.normalized_city = KeyOf(normalize_city(new.city))]_vars

\* the step ended the shop conversation and wrote neither the balance nor a
\* purchase nor the contact details
EndsWithNothingBought ==
    /\ conv_state'.shop = END
    /\ user_wallets' = user_wallets
    /\ Len(purchases') = Len(purchases)
    /\ user_contacts' = user_contacts
    /\ "user_contacts" \notin flow_last'.writes

\* C30: a checkout whose price exceeds the buyer's balance ends the flow with the
\* balance unchanged, no purchase created and no contact details stored, both
\* when the price is checked at the start and when shop_finalize is reached with
\* a balance that has dropped below the price since (the user is the buyer: not
\* the recipient filling in a gift).
C30_NoFundsNothingBought ==
    [][/\ (flow_last'.handler = "shop_buy_start" /\ flow_last'.reply = "shop_no_points")
             => EndsWithNothingBought
       /\ (/\ flow_last'.reply \in ShopFinalReplies \cup {"shop_no_points"}
           /\ flow_last'.handler # "shop_buy_start"
           /\ user_data.shop_recipient_id # FlowUser
           /\ Price(user_data.shop_item) > user_wallets[FlowUser])
             => EndsWithNothingBought]_vars

\* the rows of a bag of swipes or matches that do not involve user u
RowsWithout(t, u, involves(_, _)) ==
    [r \in {x \in DOMAIN t : ~involves(x, u)} |-> t[r]]

SwipeInvolves(r, u) == r.user_id = u \/ r.target_id = u

MatchInvolves(r, u) == r.user_a = u \/ r.user_b = u

\* C28: after the admin wipe of user u no swipe by or of u, no match of u, no
\* profile of u, no blackjack session of u and no draft or open conversation of u
\* remains, and the swipes, matches, profiles, sessions and draft that do not
\* involve u are unchanged.
C28_WipeRemovesAllOfUser ==
    [][\A u \in Users : WipeProfile(u) =>
          /\ \A r \in DOMAIN tinder_swipes' : ~SwipeInvolves(r, u)
          /\ \A r \in DOMAIN tinder_matches' : ~MatchInvolves(r, u)
          /\ ~tinder_profiles'[u].exists
          /\ SessionRowsOf(blackjack_sessions', u) = {}
          /\ u = FlowUser =>
                /\ user_data' = EmptyUserData
                /\ \A c \in DOMAIN conv_state : conv_state'[c] = END
          /\ tinder_swipes' = RowsWithout(tinder_swipes, u, SwipeInvolves)
          /\ tinder_matches' = RowsWithout(tinder_matches, u, MatchInvolves)
          /\ \A v \in Users \ {u} :
                /\ tinder_profiles'[v] = tinder_profiles[v]
                /\ SessionRowsOf(blackjack_sessions', v) = SessionRowsOf(blackjack_sessions, v)
          /\ u # FlowUser => (user_data' = user_data /\ conv_state' = conv_state)]_vars

VoteRowsOf(u, c) == {r \in DOMAIN votes : r.user_id = u /\ r.candidate_id = c}

VoteCount(u, c) == SumCopies(votes, VoteRowsOf(u, c))

\* the rating just sent was for a candidate the voter had a vote for
RepeatedRating ==
    /\ vote_last'.op = "rate"
    /\ VoteRowsOf(vote_last'.user_id, vote_last'.candidate_id) # {}

\* C29: after any sequence of ratings handled one at a time there is at most one
\* vote row per voter and candidate, and a rating of a candidate the voter has
\* rated already is not recorded: add_vote returns False and the stored votes
\* and the voter's votes_cast are as before.
C29_VotingIdempotent ==
    /\ [](\A u \in Users, c \in Candidates : VoteCount(u, c) <= 1)
    /\ [][RepeatedRating =>
             /\ ~vote_last'.recorded
             /\ votes' = votes
             /\ votes_cast' = votes_cast]_vars

\* user 1 holds one vote for candidate 1 and has just sent the other rating for
\* it, which was not recorded
C29_Witness ==
    /\ vote_last.op = "rate"
    /\ vote_last.user_id = 1
    /\ vote_last.candidate_id = 1
    /\ ~vote_last.recorded
    /\ VoteCount(1, 1) = 1
    /\ \E r \in VoteRowsOf(1, 1) : r.rating # vote_last.rating
    /\ votes_cast[1] = 1

\* ------------------------------------------------------------------------
\* The likes inbox while the clock of created_at advances
\* ------------------------------------------------------------------------
\* users_who_liked_me: the rows the query may return, in order. Every copy of a
\* selected row is returned, ORDER BY s.created_at DESC sorts them, and rows of
\* the same second come in any order
liker_rows(swipes, user_id) ==
    LET rows == users_who_liked_me_set(swipes, user_id)
        n == SumCopies(swipes, rows)
    IN {s \in [1..n -> rows] :
          /\ \A r \in rows : Cardinality({i \in 1..n : s[i] = r}) = CopiesIn(r, swipes)
          /\ \A i \in 1..n : \A j \in 1..n :
                i < j => s[i].created_at >= s[j].created_at}

\* users_who_liked_me: [r[0] for r in rows]
users_who_liked_me(swipes, user_id) ==
    {[i \in 1..Len(s) |-> s[i].user_id] : s \in liker_rows(swipes, user_id)}

\* CURRENT_TIMESTAMP moves on by a second
Tick ==
    /\ now < MaxTime
    /\ now' = now + 1
    /\ ret' = NoRet
    /\ UNCHANGED <<tinder_profiles, tinder_swipes, tinder_matches,
                   tinder_current_target, notDating>>

InitLikes == InitMatch

NextLikes ==
    \/ \E u \in Users : Browse(u)
    \/ \E u \in Users : LikesInbox(u)
    \/ \E u \in Users : Like(u)
    \/ \E u \in Users : Pass(u)
    \/ Tick

SpecLikes == InitLikes /\ [][NextLikes]_vars

\* ------------------------------------------------------------------------
\* C31: the likes inbox
\* ------------------------------------------------------------------------
\* the actors users_who_liked_me may list for a user
Listed(swipes, user_id) ==
    UNION {{s[i] : i \in 1..Len(s)} : s \in users_who_liked_me(swipes, user_id)}

\* the inbox of every user lists exactly the actors who liked them and on whom
\* they have not swiped, by like time with the most recent first
InboxExact ==
    \A T \in Users :
        /\ \A X \in Users :
              X \in Listed(tinder_swipes, T)
                 <=> HasLike(X, T) /\ ~has_swiped(tinder_swipes, T, X)
        /\ \A s \in liker_rows(tinder_swipes, T) :
              \A i \in 1..Len(s) : \A j \in 1..Len(s) :
                 i < j => s[i].created_at >= s[j].created_at
        /\ liker_rows(tinder_swipes, T) # {}
        /\ first_liker(tinder_swipes, T) =
              {s[1] : s \in {x \in users_who_liked_me(tinder_swipes, T) : Len(x) > 0}}

\* C31: users_who_liked_me(T) lists actor X exactly when X has a like toward T and
\* T has no swipe of either kind toward X; a swipe of T on X takes X out of the
\* list at once; the list is ordered by like time, most recent first, and the
\* card shown is its first element.
C31_LikesInbox ==
    /\ []InboxExact
    /\ [][\A T \in Users : \A X \in Users :
             SwipeCount(T, X)' > SwipeCount(T, X)
                => X \notin Listed(tinder_swipes', T)]_vars

\* user 3 was liked by user 1 and, a second later, by user 2, and has swiped on
\* user 2: the inbox of user 3 lists user 1 alone
C31_Witness ==
    /\ \E r \in DOMAIN tinder_swipes :
          r.user_id = 1 /\ r.target_id = 3 /\ r.status = "like" /\ r.created_at = 0
    /\ \E r \in DOMAIN tinder_swipes :
          r.user_id = 2 /\ r.target_id = 3 /\ r.status = "like" /\ r.created_at = 1
    /\ has_swiped(tinder_swipes, 3, 2)
    /\ users_who_liked_me(tinder_swipes, 3) = {<<1>>}

\* ------------------------------------------------------------------------
\* C32: the bet is debited at placement, before the round is stored
\* ------------------------------------------------------------------------
StoredSession(u) == load_blackjack_session(blackjack_sessions, u)

\* the round the call has stored: two cards each, the other 48 in the deck, the bet
FreshRound(u) ==
    /\ StoredSession(u).exists
    /\ Len(StoredSession(u).player_hand) = 2
    /\ Len(StoredSession(u).dealer_hand) = 2
    /\ Len(StoredSession(u).deck) = 48
    /\ StoredSession(u).bet = bet_call[u].bet

\* where the call stands against the wallet and the stored round
PlacementOrder ==
    \A u \in Players :
        /\ bet_call[u].pc \in {"stat", "debit"} => user_wallets[u] = bet_call[u].start
        /\ bet_call[u].pc \in {"save", "credit", "show"}
              => user_wallets[u] = bet_call[u].start - bet_call[u].bet
        /\ bet_call[u].pc \in {"credit", "respond", "clear", "show"} => FreshRound(u)

\* the step stores a round of two player cards that was not stored before
StoresRound(u) ==
    /\ StoredSession(u)'.exists
    /\ Len(StoredSession(u)'.player_hand) = 2
    /\ StoredSession(u)' # StoredSession(u)

\* C32: an accepted bet is debited from the wallet, by the bet exactly, in the
\* placing call and before anything else of the round; the call then stores a
\* session of 2 player cards, 2 dealer cards, the 48 other cards and the bet; a
\* session is only ever stored after its bet has been debited.
C32_BetDebitedAtPlacement ==
    /\ []PlacementOrder
    /\ [][\A u \in Players :
             StoresRound(u) =>
                /\ bet_call[u].pc = "save"
                /\ user_wallets[u] = bet_call[u].start - StoredSession(u)'.bet
                /\ user_wallets'[u] = user_wallets[u]]_vars

\* a bet of 10 from a balance of 20 has been debited and its round stored, and
\* the player has not acted yet
C32_Witness ==
    /\ bet_call[1].pc = "show"
    /\ bet_call[1].bet = 10
    /\ user_wallets[1] = InitialBalance - 10
    /\ FreshRound(1)

\* ------------------------------------------------------------------------
\* C33: what a hit leaves alone
\* ------------------------------------------------------------------------
\* C33: an accepted hit, busting or not, leaves the wallet and the boost as
\* they were, does not force a dealer bust and draws no dealer card: the dealer
\* hand stays as stored and the deck loses the player's card alone; a forced
\* bust and a new dealer total come only with a stand or a double.
C33_HitLeavesWalletBoostDealer ==
    [][\A u \in Players :
         /\ HitStep(u) =>
               LET s == load_blackjack_session(blackjack_sessions, u)
                   s2 == load_blackjack_session(blackjack_sessions', u)
               IN /\ user_wallets' = user_wallets
                  /\ blackjack_boosts' = blackjack_boosts
                  /\ bj_last'[u].forced = bj_last[u].forced
                  /\ bj_last'[u].dt = bj_last[u].dt
                  /\ bj_last'[u].result \in {bj_last[u].result, "bust"}
                  /\ s2.exists => /\ s2.dealer_hand = s.dealer_hand
                                  /\ Len(s2.deck) = Len(s.deck) - 1
                  /\ ~s2.exists => bj_last'[u].result = "bust"
         /\ (bj_last'[u].forced /\ ~bj_last[u].forced) => ResolutionStep(u)
         /\ (bj_last'[u].dt # bj_last[u].dt /\ bj_last'[u].op # "bet")
               => ResolutionStep(u)]_vars

\* with a boost of 100 percent set, a hit busted the player: nothing was paid
C33_Witness ==
    \E u \in Players :
        /\ bj_last[u].op = "hit" /\ bj_last[u].accepted /\ bj_last[u].result = "bust"
        /\ blackjack_boosts[u] = 100
        /\ bj_last[u].bet > 0
        /\ ~bj_last[u].forced
        /\ user_wallets[u] = bj_last[u].start - bj_last[u].bet

\* ------------------------------------------------------------------------
\* C34: the deck of a round is never exhausted
\* ------------------------------------------------------------------------
\* no draw has been attempted on an empty deck, and the next hit or double of a
\* round in progress has a card to draw
NoEmptyDraw ==
    /\ game_ret.op # "raised"
    /\ \A u \in Players :
          load_blackjack_session(blackjack_sessions, u).exists
             => load_blackjack_session(blackjack_sessions, u).deck # <<>>

\* C34: in a round started from a fresh 52-card deck, every call of dealer_play
\* returns after finitely many draws, and no draw of the round (the deal, the
\* hits, the double, the dealer's draws) finds the deck empty.
C34_DeckNeverExhausted ==
    /\ []NoEmptyDraw
    /\ (game_ret.op = "running") ~> (game_ret.op = "returned")

\* the player has hit up to nine cards without busting, and dealer_play has
\* then drawn its cards and returned
C34_Witness ==
    /\ game_ret.op = "returned"
    /\ Len(arg_hand) >= 4
    /\ load_blackjack_session(blackjack_sessions, 1).exists
    /\ Len(load_blackjack_session(blackjack_sessions, 1).player_hand) >= 9

\* ------------------------------------------------------------------------
\* C35: a payout is credited once per round
\* ------------------------------------------------------------------------
\* a payout of the round of u has been credited
AlreadyPaid(u) == bj_last[u].result \in {"win", "push"}

\* the step is a stand or a double of u that credits a payout
CreditsPayout(u) == ResolutionStep(u) /\ ResolutionOf(u).credit > 0

\* C35: the payout of a round is credited at most once: after a payout has been
\* credited (on a stand, a double or a natural), also when the result message
\* could not be sent, no later stand, hit or double of the user credits a
\* payout for that round again.
C35_PayoutCreditedOnce ==
    [][\A u \in Players : CreditsPayout(u) => ~AlreadyPaid(u)]_vars

\* ------------------------------------------------------------------------
\* C36: a completed checkout is paid for once
\* ------------------------------------------------------------------------
\* the step finishes a checkout in which the user is the buyer (not the
\* recipient filling in a gift): shop_finalize has stored the purchase
CheckoutCompletes ==
    /\ conv_state.shop # END
    /\ user_data.shop_item # ""
    /\ user_data.shop_recipient_id # FlowUser
    /\ flow_last'.reply \in ShopFinalReplies
    /\ <<user_wallets, purchases, conv_state, user_data, flow_last>>'
          # <<user_wallets, purchases, conv_state, user_data, flow_last>>

\* C36: every completed checkout of a new purchase, a kept purchase and a
\* checkout after an earlier gift fill included, debits the buyer the price of
\* the item once, adds exactly one purchase record, leaves the earlier records
\* as they were and ends the conversation, so that later messages cannot debit
\* again.
C36_CheckoutDebitsOnce ==
    [][CheckoutCompletes =>
         /\ user_wallets'[FlowUser] = user_wallets[FlowUser] - Price(user_data.shop_item)
         /\ Len(purchases') = Len(purchases) + 1
         /\ \A i \in DOMAIN purchases : purchases'[i] = purchases[i]
         /\ conv_state'.shop = END]_vars

\* ------------------------------------------------------------------------
\* C37: the cards of a round
\* ------------------------------------------------------------------------
CardsOf(cards) == {cards[i] : i \in DOMAIN cards}

\* the deck and the two hands hold each of the 52 cards once
OneDeck(deck, player_hand, dealer_hand) ==
    /\ Len(deck) + Len(player_hand) + Len(dealer_hand) = Len(OrderedDeck)
    /\ CardsOf(deck) \cup CardsOf(player_hand) \cup CardsOf(dealer_hand)
          = CardsOf(OrderedDeck)
    /\ Cardinality(CardsOf(OrderedDeck)) = Len(Ranks) * Len(Suits)

\* the stored round, and the deck and the dealer hand dealer_play works on
\* together with the player hand of its caller, are one deck
RoundIsOneDeck ==
    \A u \in Players :
        LET s == load_blackjack_session(blackjack_sessions, u) IN
        s.exists =>
           /\ OneDeck(s.deck, s.player_hand, s.dealer_hand)
           /\ (game_ret.op \in {"running", "returned"} /\ game_ret.caller = "stand")
                 => OneDeck(arg_deck, s.player_hand, arg_hand)
           /\ (game_ret.op \in {"running", "returned"} /\ game_ret.caller = "double")
                 => OneDeck(arg_deck, Append(s.player_hand, s.deck[Len(s.deck)]), arg_hand)

\* C37: at every point of a round the stored deck, the player hand and the
\* dealer hand are disjoint and hold the 52 cards of one deck between them; a
\* deal, a hit, a double and a dealer draw each move the top card of the deck to
\* one hand, and no card is duplicated or lost.
C37_CardsPartitionDeck ==
    /\ []RoundIsOneDeck
    /\ [][/\ arg_deck' # arg_deck /\ game_ret.op = "running"
             => /\ arg_deck' = SubSeq(arg_deck, 1, Len(arg_deck) - 1)
                /\ arg_hand' = Append(arg_hand, arg_deck[Len(arg_deck)])
          /\ \A u \in Players :
                LET s == load_blackjack_session(blackjack_sessions, u)
                    s2 == load_blackjack_session(blackjack_sessions', u)
                IN (s.exists /\ s2.exists /\ s2 # s)
                      => /\ s2.deck = SubSeq(s.deck, 1, Len(s.deck) - 1)
                         /\ s2.player_hand = Append(s.player_hand, s.deck[Len(s.deck)])
                         /\ s2.dealer_hand = s.dealer_hand]_vars

\* the player has hit once and the dealer has drawn a third card
C37_Witness ==
    /\ game_ret.op = "returned"
    /\ Len(arg_hand) >= 3
    /\ load_blackjack_session(blackjack_sessions, 1).exists
    /\ Len(load_blackjack_session(blackjack_sessions, 1).player_hand) >= 3

\* ------------------------------------------------------------------------
\* Editing a stored profile: the user's edit menu, the contest's edit menu, the
\* admin's toggle and edit, and a restart of the process. User 2 is a viewer
\* whose next card the user's row can be.
\* ------------------------------------------------------------------------
\* the text the repair stores for an empty city, name or bio: one em dash,
\* written here as a hyphen
DASH == <<"-">>

\* the characters of a stored normalized-city key
KeyChars(key) ==
    CASE key = "" -> <<>>
      [] key = "msk" -> <<"m", "s", "k">>
      [] key = "spb" -> <<"s", "p", "b">>

\* db.set_profile_active
set_profile_active(profiles, user_id, active) ==
    [profiles EXCEPT ![user_id].active = active]

\* admin_edit_text: the row upsert_profile stores. int() of a text that is not
\* a number raises and the age is kept; no text here has a sign or a Cyrillic
\* letter
admin_edit_row(profile, field, text, t) ==
    LET txt == strip(text)
        low == lower(txt)
        f == Len(low) > 0 /\ low[1] = "f"
        m == Len(low) > 0 /\ low[1] = "m"
    IN FullProfileRow(
        IF field = "age" /\ isdigit(txt) THEN int(txt) ELSE profile.age,
        IF field = "gender" THEN (IF f THEN "Female" ELSE IF m THEN "Male" ELSE profile.gender)
        ELSE profile.gender,
        IF field = "interest" THEN (IF f THEN "Female" ELSE IF m THEN "Male" ELSE "Any")
        ELSE profile.interest,
        IF field = "city" THEN txt ELSE profile.city,
        IF field = "city" THEN KeyOf(normalize_city(txt))
        ELSE IF profile.normalized_city # "" THEN profile.normalized_city
        ELSE KeyOf(normalize_city(profile.city)),
        IF field = "name" THEN txt ELSE profile.name,
        IF field = "bio" THEN txt ELSE profile.bio,
        TRUE, t)

\* repair_tinder_profiles on one row that has no coordinates and no text that
\* looks like one: the row upsert_profile stores. basic is the name in table
\* users, empty when there is none
repair_row(profile, basic, t) ==
    LET city_val ==
            IF Len(profile.city) > 0 THEN profile.city
            ELSE IF profile.normalized_city # "" THEN KeyChars(profile.normalized_city)
            ELSE IF Len(profile.bio) > 0 THEN profile.bio
            ELSE profile.name
        name_val == IF Len(profile.name) > 0 THEN profile.name ELSE basic
        normalized_of_city == normalize_city(profile.city)
        norm_raw == KeyChars(profile.normalized_city)
        bio_val ==
            IF Len(profile.bio) > 0 /\ normalize_city(profile.bio) # normalized_of_city
            THEN profile.bio
            ELSE IF Len(norm_raw) > 0 /\ normalize_city(norm_raw) # normalized_of_city
            THEN norm_raw
            ELSE <<>>
    IN FullProfileRow(profile.age, profile.gender, profile.interest,
                      IF Len(city_val) > 0 THEN city_val ELSE DASH,
                      KeyOf(normalize_city(city_val)),
                      IF Len(name_val) > 0 THEN name_val ELSE DASH,
                      IF Len(bio_val) > 0 THEN bio_val ELSE DASH,
                      TRUE, t)

\* the stored rows after repair_tinder_profiles
repair_tinder_profiles(profiles, basic, t) ==
    [u \in Users |->
        IF profiles[u].exists THEN repair_row(profiles[u], basic[u], t) ELSE profiles[u]]

editRest == <<tinder_swipes, tinder_matches, now, ret, user_wallets, blackjack_sessions,
              games_played, blackjack_boosts, bj_last, raceVars, gameVars, voteVars,
              bet_call, purchases, user_contacts, flows_entered, secret_santa>>

\* the admin's buttons reach a profile only when it is stored
AdminToggle ==
    /\ tinder_profiles[FlowUser].exists
    /\ tinder_profiles' = set_profile_active(tinder_profiles, FlowUser,
                                             ~tinder_profiles[FlowUser].active)
    /\ flow_last' = FlowRec("tinder_admin_toggle", <<>>, "admin_profile", {"tinder_profiles"})
    /\ UNCHANGED <<conv_state, user_data, users_row, tinder_media_rows, bj_pending,
                   tinder_current_target, sub_flow, editRest>>

\* admin_edit_text with admin_edit_target the user and admin_edit_field field
AdminEdit(field, text) ==
    /\ tinder_profiles[FlowUser].exists
    /\ tinder_profiles' = [tinder_profiles EXCEPT ![FlowUser] =
          admin_edit_row(tinder_profiles[FlowUser], field, text, now)]
    /\ flow_last' = FlowRec("admin_edit_text", text, field, {"tinder_profiles"})
    /\ UNCHANGED <<conv_state, user_data, users_row, tinder_media_rows, bj_pending,
                   tinder_current_target, sub_flow, editRest>>

\* button submit:editprofile, pressed while no conversation runs: the flag, the
\* draft, and the contest's edit menu
SubmitEditProfile ==
    /\ \A c \in DOMAIN conv_state : conv_state[c] = END
    /\ IF tinder_profiles[FlowUser].exists
       THEN /\ user_data' = [user_data EXCEPT !.edit_for_submit = TRUE,
                                              !.contest_profile = tinder_profiles[FlowUser]]
            /\ sub_flow' = "open"
            /\ flow_last' = FlowRec("submit:editprofile", <<>>, "tinder_edit_prompt", {"users"})
       ELSE /\ flow_last' = FlowRec("submit:editprofile", <<>>, "submit_need_profile", {"users"})
            /\ UNCHANGED <<user_data, sub_flow>>
    /\ users_row' = ensure_user_context(users_row, now)
    /\ UNCHANGED <<conv_state, tinder_profiles, tinder_media_rows, bj_pending,
                   tinder_current_target, editRest>>

\* button submit:saveprofile of the contest's edit menu: the candidate row is
\* stored from the draft when there is a medium, the flag and the draft go
SubmitSaveProfile ==
    /\ sub_flow # "none"
    /\ \A c \in DOMAIN conv_state : conv_state[c] = END
    /\ user_data' = [user_data EXCEPT !.edit_for_submit = FALSE,
                                      !.contest_profile = NoProfile]
    /\ sub_flow' = "none"
    /\ flow_last' =
          IF user_data.contest_profile.exists /\ Len(tinder_media_rows) > 0
          THEN FlowRec("submit:saveprofile", <<>>, "submit_profile_used",
                       {"users", "candidates"})
          ELSE FlowRec("submit:saveprofile", <<>>, "submit_profile_missing_media", {"users"})
    /\ users_row' = ensure_user_context(users_row, now)
    /\ UNCHANGED <<conv_state, tinder_profiles, tinder_media_rows, bj_pending,
                   tinder_current_target, editRest>>

\* /start while no conversation runs: clear_transient_state and the main menu;
\* the user has a language and no gift waits
StartCommand ==
    /\ \A c \in DOMAIN conv_state : conv_state[c] = END
    /\ user_data' = clear_santa_state(user_data)
    /\ bj_pending' = [bj_pending EXCEPT ![FlowUser] = FALSE]
    /\ sub_flow' = IF sub_flow = "open" THEN "left" ELSE sub_flow
    /\ flow_last' = FlowRec("start", <<>>, "start_message", {"users"})
    /\ users_row' = ensure_user_context(users_row, now)
    /\ UNCHANGED <<conv_state, tinder_profiles, tinder_media_rows, tinder_current_target,
                   editRest>>

\* the process stops and main() runs again: repair_tinder_profiles upserts every
\* stored row; the conversations and user_data were in memory only
Restart ==
    /\ tinder_profiles' = repair_tinder_profiles(tinder_profiles,
          [u \in Users |-> IF u = FlowUser /\ users_row.exists THEN T_Bob ELSE <<>>], now)
    /\ conv_state' = [c \in DOMAIN conv_state |-> END]
    /\ user_data' = EmptyUserData
    /\ bj_pending' = [u \in Users |-> FALSE]
    /\ tinder_current_target' = [u \in Users |-> None]
    /\ sub_flow' = "none"
    /\ flow_last' = FlowRec("repair_tinder_profiles", <<>>, "", {"tinder_profiles"})
    /\ UNCHANGED <<users_row, tinder_media_rows, editRest>>

AdminAgeTexts == {T_abc, T_17}
AdminCityTexts == {T_Spb}

\* the user's stored row at the start: complete, shown, with one photo
StoredProfile == FullProfileRow(18, "Male", "Any", strip(T_Msk), "msk", T_Bob, T_abc, TRUE, 0)

\* the row of user 2, the viewer
ViewerProfile == FullProfileRow(18, "Female", "Any", strip(T_Msk), "msk", T_Ann, T_abc, TRUE, 0)

InitEdit ==
    /\ BjIdle
    /\ RaceIdle
    /\ GameIdle
    /\ VoteIdle
    /\ PlaceIdle
    /\ tinder_profiles = [u \in Users |-> IF u = FlowUser THEN StoredProfile
                                         ELSE IF u = 2 THEN ViewerProfile
                                         ELSE NoProfile]
    /\ tinder_swipes = EmptyBag
    /\ tinder_matches = EmptyBag
    /\ tinder_current_target = [u \in Users |-> None]
    /\ now = 0
    /\ ret = NoRet
    /\ conv_state = [submit |-> END, santa |-> END, shop |-> END, tinder |-> END]
    /\ user_data = EmptyUserData
    /\ tinder_media_rows = <<"photo">>
    /\ secret_santa = NoSanta
    /\ users_row = NoUser
    /\ purchases = <<>>
    /\ user_contacts = NoContact
    /\ flows_entered = 0
    /\ flow_last = NoFlowRec

\* the fields edited here by the user
EditedFields == {"gender", "city", "name"}

NextEdit ==
    \/ \E field \in EditedFields : TinderEditDispatch(field)
    \/ \E text \in {T_abc, T_girl} : TinderGenderText(text)
    \/ \E text \in {T_bang} : TinderCity(text)
    \/ \E text \in NameTexts : TinderName(text)
    \/ AdminToggle
    \/ \E text \in AdminAgeTexts : AdminEdit("age", text)
    \/ \E text \in AdminCityTexts : AdminEdit("city", text)
    \/ SubmitEditProfile
    \/ SubmitSaveProfile
    \/ StartCommand
    \/ Restart

SpecEdit == InitEdit /\ [][NextEdit]_vars

\* the columns of a stored profile that an edit may touch
ProfileColumns == {"age", "gender", "interest", "city", "normalized_city", "name", "bio",
                   "active"}

\* the step stored an edit of the user's row: the field a step of the user's
\* edit menu or the admin's edit wrote, "" when the step is no such edit
EditedField ==
    IF "tinder_profiles" \notin flow_last'.writes THEN ""
    ELSE CASE flow_last'.handler = "tinder_gender_text" -> "gender"
           [] flow_last'.handler = "tinder_city" -> "city"
           [] flow_last'.handler = "tinder_name" -> "name"
           [] flow_last'.handler = "admin_edit_text" -> flow_last'.reply
           [] OTHER -> ""

\* the step leaves every column but the edited one as it was, the key excepted
\* when the city is the edited one, and leaves the media
EditFrame(field) ==
    /\ \A col \in ProfileColumns \ {field} :
          \/ col = "normalized_city" /\ field = "city"
          \/ tinder_profiles'[FlowUser][col] = tinder_profiles[FlowUser][col]
    /\ tinder_media_rows' = tinder_media_rows

\* the viewer's next card may be the user's row
Selectable(profiles, swipes) ==
    FlowUser \in get_next_candidate(profiles, swipes, 2, profiles[2].gender,
                                    profiles[2].interest, profiles[2].normalized_city)

\* C38: an edit of one field of a stored profile, by the user's edit menu or by
\* the admin's edit, changes only that field (and the normalized-city key when
\* the city is edited); age, gender, interest, city, name, bio, media and the
\* active flag are otherwise as before, so a hidden profile is still hidden,
\* and still no viewer's next card, after an edit and after a restart.
C38_EditChangesOneField ==
    [][/\ EditedField # "" => EditFrame(EditedField)
       /\ (EditedField # "" \/ flow_last'.handler = "repair_tinder_profiles")
             /\ tinder_profiles[FlowUser].exists /\ ~tinder_profiles[FlowUser].active
          => /\ ~tinder_profiles'[FlowUser].active
             /\ ~Selectable(tinder_profiles', tinder_swipes')]_vars

\* the step is an accepted edit of one field by the user's edit steps
AcceptedEdit ==
    /\ flow_last'.reply = "tinder_saved"
    /\ flow_last'.handler \in {"tinder_gender_text", "tinder_city", "tinder_name"}

\* the stored row has the value the accepted edit put in the draft
EditStored ==
    /\ "tinder_profiles" \in flow_last'.writes
    /\ CASE flow_last'.handler = "tinder_gender_text" ->
              tinder_profiles'[FlowUser].gender = user_data'.tinder_gender
         [] flow_last'.handler = "tinder_city" ->
              tinder_profiles'[FlowUser].city = user_data'.tinder_city
         [] flow_last'.handler = "tinder_name" ->
              tinder_profiles'[FlowUser].name = user_data'.tinder_name

\* C39: an accepted edit of one field made while the contest's edit menu is not
\* open is written to the stored profile, also when the user opened that menu
\* before and left it without its save button; and edit_for_submit is set only
\* while that menu is open.
C39_EditOutsideContestIsStored ==
    /\ [](sub_flow # "open" => ~user_data.edit_for_submit)
    /\ [][AcceptedEdit /\ sub_flow # "open" => EditStored]_vars

\* ------------------------------------------------------------------------
\* One user's wallet under bets, hits, doubles, stands and shop purchases, one
\* update at a time: a round of blackjack and a checkout may be open together
\* ------------------------------------------------------------------------
InitWallet ==
    /\ DatingIdle
    /\ RaceIdle
    /\ FlowIdle
    /\ GameIdle
    /\ VoteIdle
    /\ PlaceIdle
    /\ \E b \in {InitialBalance, TicketPrice} : user_wallets = [u \in Users |-> b]
    /\ blackjack_sessions = {}
    /\ bj_pending = [u \in Users |-> FALSE]
    /\ games_played = [u \in Users |-> 0]
    /\ blackjack_boosts = [u \in Users |-> 0]
    /\ bj_last = [u \in Users |-> NoBjRec]

NextWallet ==
    \/ BetButton(FlowUser)
    \/ BlackjackHit(FlowUser)
    \/ BlackjackStand(FlowUser)
    \/ BlackjackDouble(FlowUser)
    \/ \E kind \in {"ticket"} : ShopBuyStart(kind)
    \/ \E choice \in {"keep", "gift"} : ShopKeepGift(choice)
    \/ \E text \in {T_atbob} : ShopRecipient(text)
    \/ \E text \in NameTexts : ShopName(text)
    \/ \E text \in EmailTexts : ShopEmail(text)

SpecWallet == InitWallet /\ [][NextWallet]_vars

\* C40: with one update handled at a time, no sequence of bets, hits, doubles,
\* stands and shop purchases of a user makes that user's balance negative.
C40_WalletNeverNegative == \A u \in Users : user_wallets[u] >= 0

\* a checkout that passed the balance test of shop_buy_start is refused at the
\* end because a bet placed in between took the balance below the price
C40_Witness ==
    /\ flow_last.reply = "shop_no_points"
    /\ flow_last.handler # "shop_buy_start"
    /\ games_played[FlowUser] > 0
    /\ user_wallets[FlowUser] < TicketPrice
    /\ purchases = <<>>

====
